---- MODULE Spec2Model ----
(***************************************************************************)
(* Model of the fszn contract backend: the relational store behind         *)
(* src/fszn/contracts.py (route handlers), the status deriver, the finance *)
(* aggregator and the record services of src/fszn/services.                *)
(*                                                                         *)
(* The store is one record `db` with a field per table.  A request runs in *)
(* one session: a handler works on a transaction [base, cur], where base   *)
(* is the committed store and cur the session's view; db.session.commit()  *)
(* publishes cur, and a request that ends without commit leaves base.      *)
(* `last` records the outcome of the latest request (what the HTTP client  *)
(* saw), `snap` the store as it was before the latest payment creation,    *)
(* `call` the latest call of a function that is checked on its own,        *)
(* `flight` the requests that have read the store and not yet written:     *)
(* the worker threads of the server run handlers side by side, each in a   *)
(* session of its own.                                                     *)
(*                                                                         *)
(* Money is held in cents (2-decimal fixed point).  Chinese string         *)
(* literals of the source are written as ASCII tags, noted where defined.  *)
(***************************************************************************)
EXTENDS Integers, Sequences, FiniteSets, TLC

VARIABLES db, last, snap, status_out, finance_out, call, flight

vars == <<db, last, snap, status_out, finance_out, call, flight>>

---------------------------------------------------------------------------
(* Bounds of the model *)

MaxContract == 2
MaxRow == 2
MaxLogs == 4

ContractIds == 1..MaxContract
RowIds == 1..MaxRow

(* A nullable value is a sequence of at most one element: None is Python's *)
(* None, Some(x) a value that is present, Get(o) the value of Some(x).    *)
None == <<>>
Some(x) == <<x>>
Get(o) == o[1]

---------------------------------------------------------------------------
(* Identity context: User rows are owned by the auth module; the handlers  *)
(* only read them.  session['user_id'] may name a row that no longer       *)
(* exists, in which case User.query.get gives None.                        *)

Users == {[id |-> 1, role |-> "admin"]}
Actors == {None} \cup {Some(u) : u \in Users}

---------------------------------------------------------------------------
(* Form input and its parsing *)

(* request.form values for a date field *)
DateInputs == {"", "2024-13-40", "2024-01-15"}

(* parse_date: the date of a 'YYYY-MM-DD' string, None when it is empty   *)
(* or strptime raises ValueError                                          *)
parse_date(date_str) ==
  IF date_str = "" THEN None
  ELSE IF date_str = "2024-01-15" THEN Some("D20240115")
  ELSE None

(* request.form values for an amount field *)
AmountInputs == {"", "abc", "250.75", "-5.00"}

(* the result of a conversion: a value, or ValueError raised *)
Value(v) == [raised |-> FALSE, val |-> v]
ValueError == [raised |-> TRUE, val |-> 0]

(* float(raw), the value in cents *)
float(raw) ==
  CASE raw = "250.75" -> Value(25075)
    [] raw = "-5.00" -> Value(-500)
    [] raw = "100.00" -> Value(10000)
    [] raw = "0" -> Value(0)
    [] OTHER -> ValueError

(* request.form values for an integer id field *)
IntInputs == {"", "x", "1"}

(* int(raw) *)
int(raw) ==
  CASE raw = "1" -> Value(1)
    [] OTHER -> ValueError

---------------------------------------------------------------------------
(* The store *)

EmptyDb ==
  [contracts |-> {}, companies |-> {}, leaders |-> {}, tasks |-> {},
   procurements |-> {}, acceptances |-> {}, sales |-> {}, payments |-> {},
   invoices |-> {}, refunds |-> {}, feedbacks |-> {}, files |-> {},
   logs |-> <<>>]

(* every table but operation_logs *)
Business(d) == [d EXCEPT !.logs = <<>>]

Ids(rows) == {r.id : r \in rows}

(* ids the store may hand to a new row of a table *)
FreshIds(rows, universe) == universe \ Ids(rows)

(* Model.query.filter_by(contract_id=cid) *)
filter_by_contract(rows, cid) == {r \in rows : r.contract_id = cid}

(* Model.query.filter_by(id=rid, contract_id=cid) *)
filter_by_id_contract(rows, rid, cid) ==
  {r \in rows : r.id = rid /\ r.contract_id = cid}

(* Contract.query.get(contract_id) *)
get_contract(d, cid) == {c \in d.contracts : c.id = cid}

---------------------------------------------------------------------------
(* Transactions *)

Begin(d) == [base |-> d, cur |-> d]

(* db.session.commit() *)
commit(t) == t.cur

(* the request ends without reaching commit: the session is dropped *)
discard(t) == t.base

(* The `extra` argument of log_operation: None, or a dict.  A dict is    *)
(* held as its "contract_id" entry (None when it has no such key) and    *)
(* what else it holds: nothing, text, or an object json cannot encode    *)
(* (a date, a Decimal).                                                  *)
EmptyDict == [contract_id |-> None, other |-> "absent"]

Dicts ==
  {[contract_id |-> c, other |-> o] :
     c \in {None} \cup {Some(i) : i \in ContractIds},
     o \in {"absent", "text", "object"}}

ExtraInputs == {None} \cup {Some(x) : x \in Dicts}

(* `if extra:` *)
truthy(extra) == extra # None /\ Get(extra) # EmptyDict

Dumped(text) == [raised |-> FALSE, val |-> Some(text)]
TypeError == [raised |-> TRUE, val |-> None]

(* json.dumps(extra, ensure_ascii=False): the JSON text of the dict *)
json_dumps(x) ==
  IF x.other = "object" THEN TypeError ELSE Dumped([json |-> x])

(* json.loads of a text json.dumps produced *)
json_loads(text) == text.json

(* the row log_operation builds *)
OperationLog_unguarded(user, action, target_type, target_id, message, extra) ==
  LET dumped == IF truthy(extra) THEN json_dumps(Get(extra)) ELSE Dumped(0)
      extra_data == IF truthy(extra) THEN dumped.val ELSE None
  IN [raised |-> dumped.raised,
      row |-> [user_id |-> IF user = None THEN None ELSE Some(Get(user).id),
               action |-> action, target_type |-> target_type,
               target_id |-> target_id, message |-> message,
               extra_data |-> extra_data]]

OperationLog(user, action, target_type, target_id, message, extra) ==
  LET dumped == IF truthy(extra) THEN json_dumps(Get(extra)) ELSE Dumped(0)
      extra_data == IF truthy(extra) /\ ~dumped.raised THEN dumped.val
                    ELSE None
  IN [raised |-> FALSE,
      row |-> [user_id |-> IF user = None THEN None ELSE Some(Get(user).id),
               action |-> action, target_type |-> target_type,
               target_id |-> target_id, message |-> message,
               extra_data |-> extra_data]]

(* log_operation with every argument: the row is added to the session,  *)
(* nothing is committed; raised tells whether the call raised            *)
log_operation_call(t, user, action, target_type, target_id, message, extra) ==
  LET made == OperationLog(user, action, target_type, target_id, message,
                           extra)
  IN IF made.raised THEN [t |-> t, raised |-> TRUE]
     ELSE [t |-> [t EXCEPT !.cur.logs = Append(@, made.row)],
           raised |-> FALSE]

log_operation_commits(t, user, action, target_type, target_id, extra_cid) ==
  LET entry == [user_id |-> IF user = None THEN None ELSE Some(Get(user).id),
                action |-> action, target_type |-> target_type,
                target_id |-> target_id, contract_id |-> extra_cid]
      logged == [t.cur EXCEPT !.logs = Append(@, entry)]
  IN [base |-> [t.base EXCEPT !.logs = Append(@, entry)], cur |-> logged]

(* log_operation as the handlers call it: their extra is a dict of      *)
(* texts and ids, with or without a "contract_id" entry (extra_cid).     *)
(* The store keeps of each row what the properties read: the actor, the  *)
(* action, the target and the contract_id of its extra_data.             *)
log_operation(t, user, action, target_type, target_id, extra_cid) ==
  LET row == OperationLog(user, action, target_type, target_id, "message",
                          Some([contract_id |-> extra_cid,
                                other |-> "text"])).row
      entry == [user_id |-> row.user_id, action |-> row.action,
                target_type |-> row.target_type,
                target_id |-> row.target_id,
                contract_id |-> json_loads(Get(row.extra_data)).contract_id]
  IN [t EXCEPT !.cur.logs = Append(@, entry)]

(* outcome of a request *)
Committed == "committed"
NotFound == "not_found"
Rejected == "rejected"
Error == "error"

Served == "served"

Result(d, outcome) == [db |-> d, outcome |-> outcome]

---------------------------------------------------------------------------
(* Status deriver *)

(* status texts and colour levels of get_contract_status; the source's    *)
(* texts are Chinese: NOT_STARTED is '未启动', IN_PRODUCTION '生产中',       *)
(* ACCEPTED_AWAITING_PAYMENT '已验收，待回款', PAID_WITH_OPEN_ISSUES         *)
(* '已回款，有未解决问题', COMPLETE '已完成'; PASSED is the acceptance       *)
(* status '通过', IN_PROGRESS '进行中'.                                      *)
NOT_STARTED == "NOT_STARTED"
IN_PRODUCTION == "IN_PRODUCTION"
ACCEPTED_AWAITING_PAYMENT == "ACCEPTED_AWAITING_PAYMENT"
PAID_WITH_OPEN_ISSUES == "PAID_WITH_OPEN_ISSUES"
COMPLETE == "COMPLETE"
PASSED == "PASSED"
IN_PROGRESS == "IN_PROGRESS"

(* the value returned, with the source line of the return statement *)
Status(text, level, line) == [text |-> text, level |-> level, line |-> line]

(* the six flags queried at the top of get_contract_status *)
status_flags_feedback_counts(d, cid) ==
  [has_tasks |-> filter_by_contract(d.tasks, cid) # {}
                 \/ filter_by_contract(d.feedbacks, cid) # {},
   has_payments |-> filter_by_contract(d.payments, cid) # {},
   has_invoices |-> filter_by_contract(d.invoices, cid) # {},
   has_acceptance |-> filter_by_contract(d.acceptances, cid) # {},
   has_accepted |->
     {a \in filter_by_contract(d.acceptances, cid) : a.status = PASSED} # {},
   has_unresolved_feedback |->
     {f \in filter_by_contract(d.feedbacks, cid) : f.is_resolved = FALSE} # {}]

status_flags(d, cid) ==
  [has_tasks |-> Cardinality(filter_by_contract(d.tasks, cid)) > 0,
   has_payments |-> Cardinality(filter_by_contract(d.payments, cid)) > 0,
   has_invoices |-> Cardinality(filter_by_contract(d.invoices, cid)) > 0,
   has_acceptance |-> Cardinality(filter_by_contract(d.acceptances, cid)) > 0,
   has_accepted |->
     Cardinality({a \in filter_by_contract(d.acceptances, cid) :
                    a.status = PASSED}) > 0,
   has_unresolved_feedback |->
     Cardinality({f \in filter_by_contract(d.feedbacks, cid) :
                    f.is_resolved = FALSE}) > 0]

status_rules_any_acceptance(f) ==
  IF ~f.has_tasks /\ ~f.has_acceptance /\ ~f.has_payments /\ ~f.has_invoices
    THEN Status(NOT_STARTED, "grey", 78)
  ELSE IF ~f.has_acceptance
    THEN Status(IN_PRODUCTION, "blue", 83)
  ELSE IF f.has_acceptance /\ ~f.has_payments
    THEN Status(ACCEPTED_AWAITING_PAYMENT, "orange", 87)
  ELSE IF f.has_acceptance /\ f.has_payments /\ f.has_unresolved_feedback
    THEN Status(PAID_WITH_OPEN_ISSUES, "red", 91)
  ELSE IF f.has_acceptance /\ f.has_payments /\ ~f.has_unresolved_feedback
    THEN Status(COMPLETE, "green", 95)
  ELSE Status(IN_PRODUCTION, "blue", 98)

status_rules_gap(f) ==
  IF ~f.has_tasks /\ ~f.has_acceptance /\ ~f.has_payments /\ ~f.has_invoices
    THEN Status(NOT_STARTED, "grey", 78)
  ELSE IF ~f.has_accepted
    THEN Status(IN_PRODUCTION, "blue", 83)
  ELSE IF f.has_accepted /\ ~f.has_payments /\ ~f.has_unresolved_feedback
    THEN Status(ACCEPTED_AWAITING_PAYMENT, "orange", 87)
  ELSE IF f.has_accepted /\ f.has_payments /\ f.has_unresolved_feedback
    THEN Status(PAID_WITH_OPEN_ISSUES, "red", 91)
  ELSE IF f.has_accepted /\ f.has_payments /\ ~f.has_unresolved_feedback
    THEN Status(COMPLETE, "green", 95)
  ELSE Status(IN_PRODUCTION, "blue", 98)

(* the ordered rules of get_contract_status over the flags *)
status_rules(f) ==
  IF ~f.has_tasks /\ ~f.has_acceptance /\ ~f.has_payments /\ ~f.has_invoices
    THEN Status(NOT_STARTED, "grey", 78)
  ELSE IF ~f.has_accepted
    THEN Status(IN_PRODUCTION, "blue", 83)
  ELSE IF f.has_accepted /\ ~f.has_payments
    THEN Status(ACCEPTED_AWAITING_PAYMENT, "orange", 87)
  ELSE IF f.has_accepted /\ f.has_payments /\ f.has_unresolved_feedback
    THEN Status(PAID_WITH_OPEN_ISSUES, "red", 91)
  ELSE IF f.has_accepted /\ f.has_payments /\ ~f.has_unresolved_feedback
    THEN Status(COMPLETE, "green", 95)
  ELSE Status(IN_PRODUCTION, "blue", 98)

get_contract_status(d, cid) == status_rules(status_flags(d, cid))

---------------------------------------------------------------------------
(* Finance aggregator *)

(* p.amount or ZERO *)
amount_or_zero(amount) ==
  IF amount = None \/ Get(amount) = 0 THEN 0 ELSE Get(amount)

RECURSIVE sum_amounts(_)
(* sum((r.amount or ZERO) for r in rows) *)
sum_amounts(rows) ==
  IF rows = {} THEN 0
  ELSE LET r == CHOOSE x \in rows : TRUE
       IN amount_or_zero(r.amount) + sum_amounts(rows \ {r})

(* Query.first(): the rows it may return, None on an empty result *)
first(rows) == IF rows = {} THEN {None} ELSE {Some(r) : r \in rows}

get_contract_finance_summary_zero_remaining(d, cid, sales) ==
  LET quote_amount ==
        IF sales # None /\ Get(sales).quote_amount # None
          THEN Get(sales).quote_amount ELSE None
      paid_total == sum_amounts(filter_by_contract(d.payments, cid))
      refund_total == sum_amounts(filter_by_contract(d.refunds, cid))
      net_received == paid_total - refund_total
      invoiced_total == sum_amounts(filter_by_contract(d.invoices, cid))
  IN [quote_amount |-> quote_amount,
      paid_total |-> paid_total,
      refund_total |-> refund_total,
      net_received |-> net_received,
      invoiced_total |-> invoiced_total,
      receivable_remaining |->
        IF quote_amount # None
          THEN Some(Get(quote_amount) - net_received) ELSE Some(0),
      invoice_remaining |->
        IF quote_amount # None
          THEN Some(Get(quote_amount) - invoiced_total) ELSE Some(0)]

get_contract_finance_summary_adds_refunds(d, cid, sales) ==
  LET quote_amount ==
        IF sales # None /\ Get(sales).quote_amount # None
          THEN Get(sales).quote_amount ELSE None
      paid_total == sum_amounts(filter_by_contract(d.payments, cid))
      refund_total == sum_amounts(filter_by_contract(d.refunds, cid))
      net_received == paid_total + refund_total
      invoiced_total == sum_amounts(filter_by_contract(d.invoices, cid))
  IN [quote_amount |-> quote_amount,
      paid_total |-> paid_total,
      refund_total |-> refund_total,
      net_received |-> net_received,
      invoiced_total |-> invoiced_total,
      receivable_remaining |->
        IF quote_amount # None
          THEN Some(Get(quote_amount) - net_received) ELSE None,
      invoice_remaining |->
        IF quote_amount # None
          THEN Some(Get(quote_amount) - invoiced_total) ELSE None]

get_contract_finance_summary_clamped(d, cid, sales) ==
  LET quote_amount ==
        IF sales # None /\ Get(sales).quote_amount # None
          THEN Get(sales).quote_amount ELSE None
      paid_total == sum_amounts(filter_by_contract(d.payments, cid))
      refund_total == sum_amounts(filter_by_contract(d.refunds, cid))
      net_received == paid_total - refund_total
      invoiced_total == sum_amounts(filter_by_contract(d.invoices, cid))
      floor0(x) == IF x < 0 THEN 0 ELSE x
  IN [quote_amount |-> quote_amount,
      paid_total |-> paid_total,
      refund_total |-> refund_total,
      net_received |-> net_received,
      invoiced_total |-> invoiced_total,
      receivable_remaining |->
        IF quote_amount # None
          THEN Some(floor0(Get(quote_amount) - net_received)) ELSE None,
      invoice_remaining |->
        IF quote_amount # None
          THEN Some(floor0(Get(quote_amount) - invoiced_total)) ELSE None]

(* get_contract_finance_summary(contract, sales): `sales` is the row the  *)
(* caller passed or the one the function looked up, None when neither     *)
get_contract_finance_summary(d, cid, sales) ==
  LET quote_amount ==
        IF sales # None /\ Get(sales).quote_amount # None
          THEN Get(sales).quote_amount ELSE None
      paid_total == sum_amounts(filter_by_contract(d.payments, cid))
      refund_total == sum_amounts(filter_by_contract(d.refunds, cid))
      net_received == paid_total - refund_total
      invoiced_total == sum_amounts(filter_by_contract(d.invoices, cid))
  IN [quote_amount |-> quote_amount,
      paid_total |-> paid_total,
      refund_total |-> refund_total,
      net_received |-> net_received,
      invoiced_total |-> invoiced_total,
      receivable_remaining |->
        IF quote_amount # None
          THEN Some(Get(quote_amount) - net_received) ELSE None,
      invoice_remaining |->
        IF quote_amount # None
          THEN Some(Get(quote_amount) - invoiced_total) ELSE None]

---------------------------------------------------------------------------
(* Session operations *)

(* db.session.add(row); db.session.flush() *)
add(t, table, row) == [t EXCEPT !.cur[table] = @ \cup {row}]

(* db.session.delete(row) *)
delete(t, table, row) == [t EXCEPT !.cur[table] = @ \ {row}]

(* Model.query.filter_by(contract_id=cid).delete(synchronize_session=False) *)
bulk_delete(t, table, cid) ==
  [t EXCEPT !.cur[table] = {r \in @ : r.contract_id # cid}]

(* an attribute assignment on a loaded row *)
update(t, table, row, changed) ==
  [t EXCEPT !.cur[table] = (@ \ {row}) \cup {changed}]

(* the one element of a query result that holds one row *)
TheRow(rows) == CHOOSE r \in rows : TRUE

(* (request.form.get(name) or '').strip() *)
strip(raw) ==
  CASE raw = " " -> ""
    [] raw = " P1 " -> "P1"
    [] OTHER -> raw

---------------------------------------------------------------------------
(* Route handlers of contracts.py.  Each takes the committed store d, the *)
(* user of the session, the URL parameters and the form fields, and gives *)
(* the store it leaves and the response.  new_id is the primary key the   *)
(* store hands to a row the handler inserts.                              *)

set_planned_delivery(d, user, cid, date_str) ==
  LET t0 == Begin(d)
      found == get_contract(d, cid)
  IN IF found = {} THEN Result(discard(t0), NotFound)
     ELSE LET contract == TheRow(found)
              planned_date == parse_date(strip(date_str))
              t1 == [t0 EXCEPT !.cur.contracts = (@ \ {contract}) \cup
                       {[contract EXCEPT
                           !.planned_delivery_date = planned_date]}]
              t2 == log_operation(t1, user,
                                  "contract.set_planned_delivery_date",
                                  "Contract", cid, None)
          IN Result(commit(t2), Committed)

IntegrityError(t) == [raised |-> TRUE, t |-> t]
Flushed(t) == [raised |-> FALSE, t |-> t]

(* db.session.flush() of a new Contract with no constraint on the table *)
flush_contract_unconstrained(t, row) == Flushed(add(t, "contracts", row))

(* db.session.flush() of a new Contract: the INSERT reaches the store,   *)
(* whose unique constraint on project_code refuses a code that a         *)
(* committed contract already carries                                    *)
flush_contract(t, row) ==
  IF \E c \in t.cur.contracts : c.project_code = row.project_code
    THEN IntegrityError(t)
  ELSE Flushed(add(t, "contracts", row))

(* new_contract from the insert on: the form is valid and the existence  *)
(* check found no contract; d is the committed store at the insert       *)
new_contract_insert(d, user, company_name, project_code, new_id) ==
  LET t0 == Begin(d)
      t1 == IF company_name \in d.companies THEN t0
            ELSE [t0 EXCEPT !.cur.companies = @ \cup {company_name}]
      f == flush_contract(t1, [id |-> new_id,
                               project_code |-> project_code,
                               planned_delivery_date |-> None])
  IN IF f.raised THEN Result(discard(f.t), Error)
     ELSE LET t3 == log_operation(f.t, user, "contract.create",
                                  "Contract", new_id, None)
          IN Result(commit(t3), Committed)

new_contract(d, user, company_name_raw, project_code_raw, contract_number_raw, name_raw, new_id) ==
  LET t0 == Begin(d)
      company_name == strip(company_name_raw)
      project_code == strip(project_code_raw)
      contract_number == strip(contract_number_raw)
      name == strip(name_raw)
  IN IF company_name = "" \/ project_code = "" \/ contract_number = ""
        \/ name = ""
       THEN Result(discard(t0), Rejected)
     ELSE LET exists == {c \in d.contracts :
                           c.project_code = project_code}
          IN IF exists # {} THEN Result(discard(t0), Rejected)
             ELSE new_contract_insert(d, user, company_name, project_code,
                                      new_id)

(* delete_contract with the files of the contract flagged, not removed *)
delete_contract_flags_files(d, user, cid, fault) ==
  LET t0 == Begin(d)
      found == get_contract(d, cid)
  IN IF found = {} THEN Result(discard(t0), NotFound)
     ELSE LET t1 == log_operation(t0, user, "contract.delete", "Contract",
                                  cid, None)
              t2 == bulk_delete(t1, "tasks", cid)
              t3 == bulk_delete(t2, "procurements", cid)
              t4 == bulk_delete(t3, "acceptances", cid)
              t5 == bulk_delete(t4, "payments", cid)
              t6 == bulk_delete(t5, "invoices", cid)
              t7 == bulk_delete(t6, "refunds", cid)
              t8 == bulk_delete(t7, "feedbacks", cid)
              t9 == bulk_delete(t8, "leaders", cid)
              t10 == bulk_delete(t9, "sales", cid)
              t11 == [t10 EXCEPT !.cur.files =
                        {IF r.contract_id = cid
                           THEN [r EXCEPT !.is_deleted = TRUE]
                         ELSE r : r \in @}]
              t12 == delete(t11, "contracts", TheRow(found))
          IN IF fault THEN Result(discard(t6), Error)
             ELSE Result(commit(t12), Committed)

(* fault: the store raises during the cascade of bulk deletes *)
delete_contract_purges_logs(d, user, cid, fault) ==
  LET t0 == Begin(d)
      found == get_contract(d, cid)
  IN IF found = {} THEN Result(discard(t0), NotFound)
     ELSE LET t1 == log_operation(t0, user, "contract.delete", "Contract",
                                  cid, None)
              t2 == bulk_delete(t1, "tasks", cid)
              t3 == bulk_delete(t2, "procurements", cid)
              t4 == bulk_delete(t3, "acceptances", cid)
              t5 == bulk_delete(t4, "payments", cid)
              t6 == bulk_delete(t5, "invoices", cid)
              t7 == bulk_delete(t6, "refunds", cid)
              t8 == bulk_delete(t7, "feedbacks", cid)
              t9 == bulk_delete(t8, "leaders", cid)
              t10 == bulk_delete(t9, "sales", cid)
              t11 == bulk_delete(t10, "files", cid)
              t12 == delete(t11, "contracts", TheRow(found))
              kept == SelectSeq(t12.cur.logs,
                                LAMBDA l : l.contract_id # Some(cid))
          IN IF fault THEN Result(discard(t6), Error)
             ELSE Result([commit(t12) EXCEPT !.logs = kept], Committed)

delete_contract(d, user, cid, fault) ==
  LET t0 == Begin(d)
      found == get_contract(d, cid)
  IN IF found = {} THEN Result(discard(t0), NotFound)
     ELSE LET t1 == log_operation(t0, user, "contract.delete", "Contract",
                                  cid, None)
              t2 == bulk_delete(t1, "tasks", cid)
              t3 == bulk_delete(t2, "procurements", cid)
              t4 == bulk_delete(t3, "acceptances", cid)
              t5 == bulk_delete(t4, "payments", cid)
              t6 == bulk_delete(t5, "invoices", cid)
              t7 == bulk_delete(t6, "refunds", cid)
              t8 == bulk_delete(t7, "feedbacks", cid)
              t9 == bulk_delete(t8, "leaders", cid)
              t10 == bulk_delete(t9, "sales", cid)
              t11 == bulk_delete(t10, "files", cid)
              t12 == delete(t11, "contracts", TheRow(found))
          IN IF fault THEN Result(discard(t6), Error)
             ELSE Result(commit(t12), Committed)

manage_leaders(d, user, cid, department_id_raw, person_id_raw, new_id) ==
  LET t0 == Begin(d)
  IN IF get_contract(d, cid) = {} THEN Result(discard(t0), NotFound)
     ELSE IF department_id_raw = "" \/ person_id_raw = ""
       THEN Result(discard(t0), Rejected)
     ELSE IF int(department_id_raw).raised \/ int(person_id_raw).raised
       THEN Result(discard(t0), Rejected)
     ELSE LET department_id == int(department_id_raw).val
              person_id == int(person_id_raw).val
              exists == {l \in d.leaders :
                           /\ l.contract_id = cid
                           /\ l.department_id = department_id
                           /\ l.person_id = person_id}
          IN IF exists # {} THEN Result(discard(t0), Rejected)
             ELSE LET t1 == add(t0, "leaders",
                                [id |-> new_id, contract_id |-> cid,
                                 department_id |-> department_id,
                                 person_id |-> person_id])
                      t2 == log_operation(t1, user, "leader.create",
                                          "ProjectDepartmentLeader", new_id,
                                          Some(cid))
                  IN Result(commit(t2), Committed)

delete_leader(d, cid, leader_id) ==
  LET t0 == Begin(d)
      found == filter_by_id_contract(d.leaders, leader_id, cid)
  IN IF get_contract(d, cid) = {} THEN Result(discard(t0), NotFound)
     ELSE IF found = {} THEN Result(discard(t0), NotFound)
     ELSE Result(commit(delete(t0, "leaders", TheRow(found))), Committed)

manage_tasks(d, user, cid, department_id_raw, title_raw, start_date_raw, new_id) ==
  LET t0 == Begin(d)
      title == strip(title_raw)
      start_date_str == strip(start_date_raw)
  IN IF get_contract(d, cid) = {} THEN Result(discard(t0), NotFound)
     ELSE IF department_id_raw = "" \/ title = "" \/ start_date_str = ""
       THEN Result(discard(t0), Rejected)
     ELSE IF int(department_id_raw).raised
       THEN Result(discard(t0), Rejected)
     ELSE LET start_date == parse_date(start_date_str)
              t1 == add(t0, "tasks",
                        [id |-> new_id, contract_id |-> cid,
                         start_date |-> start_date])
              t2 == log_operation(t1, user, "task.create", "Task", new_id,
                                  Some(cid))
          IN Result(commit(t2), Committed)

delete_task(d, cid, task_id) ==
  LET t0 == Begin(d)
      found == filter_by_id_contract(d.tasks, task_id, cid)
  IN IF get_contract(d, cid) = {} THEN Result(discard(t0), NotFound)
     ELSE IF found = {} THEN Result(discard(t0), NotFound)
     ELSE Result(commit(delete(t0, "tasks", TheRow(found))), Committed)

manage_procurements(d, user, cid, item_name_raw, new_id) ==
  LET t0 == Begin(d)
      item_name == strip(item_name_raw)
  IN IF get_contract(d, cid) = {} THEN Result(discard(t0), NotFound)
     ELSE IF item_name = "" THEN Result(discard(t0), Rejected)
     ELSE LET t1 == add(t0, "procurements",
                        [id |-> new_id, contract_id |-> cid])
              t2 == log_operation(t1, user, "procurement.create",
                                  "ProcurementItem", new_id, Some(cid))
          IN Result(commit(t2), Committed)

(* the handler reads `user`, a name it never binds: NameError once both   *)
(* rows are found                                                         *)
delete_procurement(d, cid, item_id) ==
  LET t0 == Begin(d)
      found == filter_by_id_contract(d.procurements, item_id, cid)
  IN IF get_contract(d, cid) = {} THEN Result(discard(t0), NotFound)
     ELSE IF found = {} THEN Result(discard(t0), NotFound)
     ELSE Result(discard(t0), Error)

manage_acceptances(d, user, cid, stage_name_raw, date_raw, status_raw, new_id) ==
  LET t0 == Begin(d)
      stage_name == strip(stage_name_raw)
      date_str == strip(date_raw)
      status == IF strip(status_raw) = "" THEN IN_PROGRESS
                ELSE strip(status_raw)
  IN IF get_contract(d, cid) = {} THEN Result(discard(t0), NotFound)
     ELSE IF stage_name = "" \/ date_str = ""
       THEN Result(discard(t0), Rejected)
     ELSE IF parse_date(date_str) = None THEN Result(discard(t0), Rejected)
     ELSE LET t1 == add(t0, "acceptances",
                        [id |-> new_id, contract_id |-> cid,
                         status |-> status])
              t2 == log_operation(t1, user, "acceptance.create", "Contract",
                                  cid, Some(cid))
          IN Result(commit(t2), Committed)

delete_acceptance(d, user, cid, acc_id) ==
  LET t0 == Begin(d)
      found == filter_by_id_contract(d.acceptances, acc_id, cid)
  IN IF get_contract(d, cid) = {} THEN Result(discard(t0), NotFound)
     ELSE IF found = {} THEN Result(discard(t0), NotFound)
     ELSE LET t1 == IF user # None
                      THEN log_operation(t0, user, "acceptance.delete",
                                         "Contract", cid, None)
                      ELSE t0
              t2 == delete(t1, "acceptances", TheRow(found))
          IN Result(commit(t2), Committed)

(* manage_sales from the update-or-insert on: the form is valid and     *)
(* `found` is what the lookup at the head of the handler returned; d is *)
(* the committed store at the write.  The UPDATE of the flush goes by   *)
(* primary key and raises StaleDataError when the row is gone.          *)
manage_sales_save(d, user, cid, quote_amount, found, new_id) ==
  LET t0 == Begin(d)
  IN IF found # {}
       THEN LET sales == TheRow(found)
                stored == {r \in d.sales : r.id = sales.id}
            IN IF stored = {} THEN Result(discard(t0), Error)
               ELSE LET t1 == update(t0, "sales", TheRow(stored),
                                     [TheRow(stored) EXCEPT
                                        !.quote_amount = quote_amount])
                        t2 == log_operation(t1, user, "sales.update",
                                            "SalesInfo", sales.id,
                                            Some(cid))
                    IN Result(commit(t2), Committed)
       ELSE LET t1 == add(t0, "sales",
                          [id |-> new_id, contract_id |-> cid,
                           quote_amount |-> quote_amount])
                t2 == log_operation(t1, user, "sales.create",
                                    "SalesInfo", new_id, Some(cid))
            IN Result(commit(t2), Committed)

manage_sales(d, user, cid, quote_amount_in, quote_date_in, deal_date_in, new_id) ==
  LET t0 == Begin(d)
      quote_amount_raw == strip(quote_amount_in)
      quote_date_str == strip(quote_date_in)
      deal_date_str == strip(deal_date_in)
  IN IF get_contract(d, cid) = {} THEN Result(discard(t0), NotFound)
     ELSE IF quote_amount_raw # "" /\ float(quote_amount_raw).raised
       THEN Result(discard(t0), Rejected)
     ELSE IF quote_date_str # "" /\ parse_date(quote_date_str) = None
       THEN Result(discard(t0), Rejected)
     ELSE IF deal_date_str # "" /\ parse_date(deal_date_str) = None
       THEN Result(discard(t0), Rejected)
     ELSE LET quote_amount == IF quote_amount_raw = "" THEN None
                              ELSE Some(float(quote_amount_raw).val)
          IN manage_sales_save(d, user, cid, quote_amount,
                               filter_by_contract(d.sales, cid), new_id)

(* as delete_procurement: NameError on `user` once a row is found *)
delete_sales(d, cid) ==
  LET t0 == Begin(d)
  IN IF get_contract(d, cid) = {} THEN Result(discard(t0), NotFound)
     ELSE IF filter_by_contract(d.sales, cid) = {}
       THEN Result(discard(t0), Rejected)
     ELSE Result(discard(t0), Error)

manage_payments(d, user, cid, amount_in, date_in, new_id) ==
  LET t0 == Begin(d)
      amount_raw == strip(amount_in)
      date_str == strip(date_in)
  IN IF get_contract(d, cid) = {} THEN Result(discard(t0), NotFound)
     ELSE IF amount_raw = "" \/ date_str = ""
       THEN Result(discard(t0), Rejected)
     ELSE IF float(amount_raw).raised THEN Result(discard(t0), Rejected)
     ELSE IF parse_date(date_str) = None THEN Result(discard(t0), Rejected)
     ELSE LET t1 == add(t0, "payments",
                        [id |-> new_id, contract_id |-> cid,
                         amount |-> Some(float(amount_raw).val)])
              t2 == log_operation(t1, user, "payment.create", "Payment",
                                  new_id, Some(cid))
          IN Result(commit(t2), Committed)

delete_payment_clears(d, user, cid, pay_id) ==
  LET t0 == Begin(d)
      found == filter_by_id_contract(d.payments, pay_id, cid)
  IN IF get_contract(d, cid) = {} THEN Result(discard(t0), NotFound)
     ELSE IF found = {} THEN Result(discard(t0), NotFound)
     ELSE LET t1 == log_operation(t0, user, "payment.delete", "Payment",
                                  pay_id, Some(cid))
              t2 == bulk_delete(t1, "payments", cid)
          IN Result(commit(t2), Committed)

delete_payment(d, user, cid, pay_id) ==
  LET t0 == Begin(d)
      found == filter_by_id_contract(d.payments, pay_id, cid)
  IN IF get_contract(d, cid) = {} THEN Result(discard(t0), NotFound)
     ELSE IF found = {} THEN Result(discard(t0), NotFound)
     ELSE LET t1 == log_operation(t0, user, "payment.delete", "Payment",
                                  pay_id, Some(cid))
              t2 == delete(t1, "payments", TheRow(found))
          IN Result(commit(t2), Committed)

manage_invoices(d, user, cid, amount_in, date_in, new_id) ==
  LET t0 == Begin(d)
      amount_raw == strip(amount_in)
      date_str == strip(date_in)
  IN IF get_contract(d, cid) = {} THEN Result(discard(t0), NotFound)
     ELSE IF amount_raw = "" \/ date_str = ""
       THEN Result(discard(t0), Rejected)
     ELSE IF float(amount_raw).raised THEN Result(discard(t0), Rejected)
     ELSE IF parse_date(date_str) = None THEN Result(discard(t0), Rejected)
     ELSE LET t1 == add(t0, "invoices",
                        [id |-> new_id, contract_id |-> cid,
                         amount |-> Some(float(amount_raw).val)])
              t2 == log_operation(t1, user, "invoice.create", "Invoice",
                                  new_id, Some(cid))
          IN Result(commit(t2), Committed)

delete_invoice(d, user, cid, inv_id) ==
  LET t0 == Begin(d)
      found == filter_by_id_contract(d.invoices, inv_id, cid)
  IN IF get_contract(d, cid) = {} THEN Result(discard(t0), NotFound)
     ELSE IF found = {} THEN Result(discard(t0), NotFound)
     ELSE LET t1 == log_operation(t0, user, "invoice.delete", "Invoice",
                                  inv_id, Some(cid))
              t2 == delete(t1, "invoices", TheRow(found))
          IN Result(commit(t2), Committed)

manage_refunds(d, user, cid, amount_in, date_in, new_id) ==
  LET t0 == Begin(d)
      amount_raw == strip(amount_in)
      date_str == strip(date_in)
  IN IF get_contract(d, cid) = {} THEN Result(discard(t0), NotFound)
     ELSE IF amount_raw = "" \/ date_str = ""
       THEN Result(discard(t0), Rejected)
     ELSE IF float(amount_raw).raised THEN Result(discard(t0), Rejected)
     ELSE IF parse_date(date_str) = None THEN Result(discard(t0), Rejected)
     ELSE LET t1 == add(t0, "refunds",
                        [id |-> new_id, contract_id |-> cid,
                         amount |-> Some(float(amount_raw).val)])
              t2 == IF user # None
                      THEN log_operation(t1, user, "refund.create",
                                         "Contract", cid, Some(cid))
                      ELSE t1
          IN Result(commit(t2), Committed)

delete_refund(d, user, cid, refund_id) ==
  LET t0 == Begin(d)
      found == filter_by_id_contract(d.refunds, refund_id, cid)
  IN IF get_contract(d, cid) = {} THEN Result(discard(t0), NotFound)
     ELSE IF found = {} THEN Result(discard(t0), NotFound)
     ELSE LET t1 == IF user # None
                      THEN log_operation(t0, user, "refund.delete",
                                         "Contract", cid, None)
                      ELSE t0
              t2 == delete(t1, "refunds", TheRow(found))
          IN Result(commit(t2), Committed)

(* int(handler_id_raw) is not guarded: its ValueError leaves the handler *)
manage_feedbacks(d, user, cid, content_raw, handler_id_in, new_id) ==
  LET t0 == Begin(d)
      content == strip(content_raw)
      handler_id_raw == strip(handler_id_in)
  IN IF get_contract(d, cid) = {} THEN Result(discard(t0), NotFound)
     ELSE IF content = "" THEN Result(discard(t0), Rejected)
     ELSE IF handler_id_raw # "" /\ int(handler_id_raw).raised
       THEN Result(discard(t0), Error)
     ELSE LET t1 == add(t0, "feedbacks",
                        [id |-> new_id, contract_id |-> cid,
                         is_resolved |-> FALSE])
              t2 == IF user # None
                      THEN log_operation(t1, user, "feedback.create",
                                         "Contract", cid, Some(cid))
                      ELSE t1
          IN Result(commit(t2), Committed)

delete_feedback(d, user, cid, feedback_id) ==
  LET t0 == Begin(d)
      found == filter_by_id_contract(d.feedbacks, feedback_id, cid)
  IN IF get_contract(d, cid) = {} THEN Result(discard(t0), NotFound)
     ELSE IF found = {} THEN Result(discard(t0), NotFound)
     ELSE LET t1 == IF user # None
                      THEN log_operation(t0, user, "feedback.delete",
                                         "Contract", cid, Some(cid))
                      ELSE t0
              t2 == delete(t1, "feedbacks", TheRow(found))
          IN Result(commit(t2), Committed)

resolve_feedback(d, user, cid, feedback_id) ==
  LET t0 == Begin(d)
      found == filter_by_id_contract(d.feedbacks, feedback_id, cid)
  IN IF get_contract(d, cid) = {} THEN Result(discard(t0), NotFound)
     ELSE IF found = {} THEN Result(discard(t0), NotFound)
     ELSE LET fb == TheRow(found)
              t1 == update(t0, "feedbacks", fb,
                           [fb EXCEPT !.is_resolved = TRUE])
              t2 == log_operation(t1, user, "feedback.resolve", "Feedback",
                                  feedback_id, Some(cid))
          IN Result(commit(t2), Committed)

(* unresolve_feedback with fb.is_resolved = True *)
unresolve_feedback_sets_resolved(d, user, cid, feedback_id) ==
  LET t0 == Begin(d)
      found == filter_by_id_contract(d.feedbacks, feedback_id, cid)
  IN IF get_contract(d, cid) = {} THEN Result(discard(t0), NotFound)
     ELSE IF found = {} THEN Result(discard(t0), NotFound)
     ELSE LET fb == TheRow(found)
              t1 == update(t0, "feedbacks", fb,
                           [fb EXCEPT !.is_resolved = TRUE])
              t2 == log_operation(t1, user, "feedback.unresolve", "Feedback",
                                  feedback_id, Some(cid))
          IN Result(commit(t2), Committed)

unresolve_feedback(d, user, cid, feedback_id) ==
  LET t0 == Begin(d)
      found == filter_by_id_contract(d.feedbacks, feedback_id, cid)
  IN IF get_contract(d, cid) = {} THEN Result(discard(t0), NotFound)
     ELSE IF found = {} THEN Result(discard(t0), NotFound)
     ELSE LET fb == TheRow(found)
              t1 == update(t0, "feedbacks", fb,
                           [fb EXCEPT !.is_resolved = FALSE])
              t2 == log_operation(t1, user, "feedback.unresolve", "Feedback",
                                  feedback_id, Some(cid))
          IN Result(commit(t2), Committed)

(* Stored file names.  A text is the sequence of its characters.         *)

(* the characters of the texts of the model: action tags and keywords, *)
(* project codes, file types, versions, file names                     *)
chars(text) ==
  CASE text = "payment.create" ->
         <<"p", "a", "y", "m", "e", "n", "t", ".", "c", "r", "e", "a", "t", "e">>
    [] text = "payment.delete" ->
         <<"p", "a", "y", "m", "e", "n", "t", ".", "d", "e", "l", "e", "t", "e">>
    [] text = "contract.create" ->
         <<"c", "o", "n", "t", "r", "a", "c", "t", ".", "c", "r", "e", "a", "t", "e">>
    [] text = "contract.delete" ->
         <<"c", "o", "n", "t", "r", "a", "c", "t", ".", "d", "e", "l", "e", "t", "e">>
    [] text = "PAYMENT" ->
         <<"P", "A", "Y", "M", "E", "N", "T">>
    [] text = "payment_create" ->
         <<"p", "a", "y", "m", "e", "n", "t", "_", "c", "r", "e", "a", "t", "e">>
    [] text = "create" ->
         <<"c", "r", "e", "a", "t", "e">>
    [] text = "P1" -> <<"P", "1">>
    [] text = "P2" -> <<"P", "2">>
    [] text = "P3" -> <<"P", "3">>
    [] text = "P4" -> <<"P", "4">>
    [] text = "A" -> <<"A">>
    [] text = "contract" -> <<"c", "o", "n", "t", "r", "a", "c", "t">>
    [] text = "drawing" -> <<"d", "r", "a", "w", "i", "n", "g">>
    [] text = "invoice" -> <<"i", "n", "v", "o", "i", "c", "e">>
    [] text = "memo" -> <<"m", "e", "m", "o">>
    [] text = "tech" -> <<"t", "e", "c", "h">>
    [] text = "V1" -> <<"V", "1">>
    [] text = "V2" -> <<"V", "2">>
    [] text = "plan.pdf" -> <<"p", "l", "a", "n", ".", "p", "d", "f">>
    [] text = "plan.exe" -> <<"p", "l", "a", "n", ".", "e", "x", "e">>
    [] text = "plan.d/w" -> <<"p", "l", "a", "n", ".", "d", "/", "w">>
    [] OTHER -> <<>>

(* str.lower() of one character *)
lower(c) ==
  CASE c = "P" -> "p" [] c = "A" -> "a" [] c = "Y" -> "y" [] c = "M" -> "m"
    [] c = "E" -> "e" [] c = "N" -> "n" [] c = "T" -> "t" [] c = "D" -> "d"
    [] c = "F" -> "f"
    [] OTHER -> c

(* the characters sanitize_part removes: \ / : * ? " < > | *)
invalid == {"\\", "/", ":", "*", "?", "\"", "<", ">", "|"}

(* sanitize_part: the invalid characters dropped, then every space      *)
(* replaced by an underscore                                            *)
RECURSIVE sanitize_part(_)
sanitize_part(text) ==
  IF text = <<>> THEN <<>>
  ELSE IF Head(text) \in invalid THEN sanitize_part(Tail(text))
  ELSE <<IF Head(text) = " " THEN "_" ELSE Head(text)>>
         \o sanitize_part(Tail(text))

(* text.rsplit('.', 1)[1]: what follows the last dot *)
RECURSIVE rsplit_dot(_)
rsplit_dot(text) ==
  IF \A i \in 1..Len(text) : text[i] # "." THEN text
  ELSE rsplit_dot(Tail(text))

(* "_".join(parts) *)
RECURSIVE join(_)
join(parts) ==
  IF parts = <<>> THEN <<>>
  ELSE IF Len(parts) = 1 THEN Head(parts)
  ELSE Head(parts) \o <<"_">> \o join(Tail(parts))

(* x or default *)
or_else(x, default) == IF x = <<>> THEN default ELSE x

(* characters of the base name kept by generate_file_name: 180 in the   *)
(* source, scaled to the lengths of the model's texts                   *)
BaseLimit == 36

(* generate_file_name with its two results apart: the base name and the *)
(* extension; today_str is datetime.utcnow().strftime('%Y%m%d')         *)
file_name_parts(contract, file_type, version, author, original_filename, today_str) ==
  LET ext == IF \E i \in 1..Len(original_filename) :
                  original_filename[i] = "."
               THEN <<".">> \o [i \in 1..Len(rsplit_dot(original_filename)) |->
                                 lower(rsplit_dot(original_filename)[i])]
             ELSE <<>>
      parts == <<or_else(sanitize_part(contract.company),
                         <<"N", "o", "C", "o", "m", "p", "a", "n", "y">>),
                 or_else(sanitize_part(contract.project_code),
                         <<"N", "o", "P", "r", "o", "j", "e", "c", "t">>),
                 or_else(sanitize_part(contract.contract_number),
                         <<"N", "o", "C", "o", "n", "t", "r", "a", "c", "t",
                           "N", "o">>),
                 or_else(sanitize_part(contract.name),
                         <<"N", "o", "N", "a", "m", "e">>),
                 today_str,
                 sanitize_part(file_type),
                 sanitize_part(or_else(version, <<"V", "1">>)),
                 sanitize_part(or_else(author,
                                       <<"u", "n", "k", "n", "o", "w", "n">>))>>
      base == join(parts)
  IN [base |-> IF Len(base) > BaseLimit THEN SubSeq(base, 1, BaseLimit)
               ELSE base,
      ext |-> ext]

generate_file_name(contract, file_type, version, author, original_filename, today_str) ==
  LET n == file_name_parts(contract, file_type, version, author,
                           original_filename, today_str)
  IN n.base \o n.ext

(* uploaded file names, and the file types of the upload form *)
FileNames == {"", "plan.pdf", "plan.exe", "plan.d/w"}
FileTypes == {"contract", "drawing", "invoice", "tech", "memo"}
PublicInputs == {"", "y"}

ALLOWED_EXTENSIONS == {"pdf", "png", "jpg", "jpeg", "doc", "docx", "xls", "xlsx"}

(* filename.rsplit('.', 1)[1].lower(), None without a dot *)
extension(filename) ==
  CASE filename = "plan.pdf" -> Some("pdf")
    [] filename = "plan.exe" -> Some("exe")
    [] filename = "plan.d/w" -> Some("d/w")
    [] OTHER -> None

allowed_file(filename) ==
  /\ filename # ""
  /\ extension(filename) # None
  /\ Get(extension(filename)) \in ALLOWED_EXTENSIONS

ROLE_ALLOWED_TYPES(role) ==
  CASE role \in {"admin", "boss"} ->
         {"contract", "tech", "drawing", "invoice", "ticket"}
    [] role \in {"software_engineer", "mechanical_engineer",
                 "electrical_engineer"} -> {"drawing", "tech"}
    [] role = "sales" -> {"contract", "tech", "ticket"}
    [] role \in {"finance", "procurement"} -> {"invoice"}
    [] OTHER -> {"contract", "tech", "drawing", "invoice", "ticket"}

(* str.strip().lower() of a role text *)
strip_lower(text) ==
  CASE text = " Admin " -> "admin"
    [] text = " Customer " -> "customer"
    [] OTHER -> text

(* (user.role or '').strip().lower() if user and user.role else ''; a   *)
(* role of "" stands for a role that is None or empty, which every test *)
(* of the source treats alike                                           *)
role_of(user) ==
  IF user = None \/ Get(user).role = "" THEN ""
  ELSE strip_lower(Get(user).role)

get_role_allowed_types(user) == ROLE_ALLOWED_TYPES(role_of(user))

(* request.form values of version, and the days of the uploads *)
VersionInputs == {""}
Days == {<<"2", "0", "2", "4", "0", "1", "1", "5">>}

(* user.username: the user's login name *)
username(user) == <<"u", <<"0", "1", "2", "3">>[Get(user).id + 1]>>

(* the texts of a contract that generate_file_name reads: every contract *)
(* of the model was created with company, contract number and name "A"   *)
FileContract(c) ==
  [company |-> chars("A"), project_code |-> chars(c.project_code),
   contract_number |-> chars("A"), name |-> chars("A")]

(* manage_files with is_public taken from the form flag alone *)
manage_files_public_by_flag(d, user, cid, filename, file_type_raw, version_raw, is_public_raw, today_str, new_id) ==
  LET t0 == Begin(d)
      file_type == strip(file_type_raw)
      version == IF strip(version_raw) = "" THEN "V1" ELSE strip(version_raw)
      is_public == is_public_raw = "y"
  IN IF get_contract(d, cid) = {} THEN Result(discard(t0), NotFound)
     ELSE IF user = None THEN Result(discard(t0), Rejected)
     ELSE IF filename = "" THEN Result(discard(t0), Rejected)
     ELSE IF file_type # "drawing" /\ ~allowed_file(filename)
       THEN Result(discard(t0), Rejected)
     ELSE IF file_type \notin get_role_allowed_types(user)
       THEN Result(discard(t0), Rejected)
     ELSE LET stored_filename ==
                generate_file_name(FileContract(TheRow(get_contract(d, cid))),
                                   chars(file_type), chars(version),
                                   username(user), chars(filename),
                                   today_str)
              t1 == add(t0, "files",
                        [id |-> new_id, contract_id |-> cid,
                         uploader_id |-> Get(user).id,
                         is_deleted |-> FALSE, is_public |-> is_public,
                         file_type |-> file_type,
                         owner_role |-> Get(user).role,
                         stored_filename |-> stored_filename])
              t2 == log_operation(t1, user, "file.upload", "ProjectFile",
                                  new_id, Some(cid))
          IN Result(commit(t2), Committed)

manage_files(d, user, cid, filename, file_type_raw, version_raw, is_public_raw, today_str, new_id) ==
  LET t0 == Begin(d)
      file_type == strip(file_type_raw)
      version == IF strip(version_raw) = "" THEN "V1" ELSE strip(version_raw)
      is_public == is_public_raw = "y" /\ file_type \in {"contract", "tech"}
  IN IF get_contract(d, cid) = {} THEN Result(discard(t0), NotFound)
     ELSE IF user = None THEN Result(discard(t0), Rejected)
     ELSE IF filename = "" THEN Result(discard(t0), Rejected)
     ELSE IF file_type # "drawing" /\ ~allowed_file(filename)
       THEN Result(discard(t0), Rejected)
     ELSE IF file_type \notin get_role_allowed_types(user)
       THEN Result(discard(t0), Rejected)
     ELSE LET stored_filename ==
                generate_file_name(FileContract(TheRow(get_contract(d, cid))),
                                   chars(file_type), chars(version),
                                   username(user), chars(filename),
                                   today_str)
              t1 == add(t0, "files",
                        [id |-> new_id, contract_id |-> cid,
                         uploader_id |-> Get(user).id,
                         is_deleted |-> FALSE, is_public |-> is_public,
                         file_type |-> file_type,
                         owner_role |-> Get(user).role,
                         stored_filename |-> stored_filename])
              t2 == log_operation(t1, user, "file.upload", "ProjectFile",
                                  new_id, Some(cid))
          IN Result(commit(t2), Committed)

(* download_file: the file is sent or the request is turned away; the   *)
(* store is not written.  The rule for the other roles reads user.role  *)
(* of a user that may be None: AttributeError.                          *)
download_file(d, user, cid, file_id) ==
  LET t0 == Begin(d)
      found == {f \in filter_by_id_contract(d.files, file_id, cid) :
                  ~f.is_deleted}
      role == role_of(user)
  IN IF get_contract(d, cid) = {} THEN Result(discard(t0), NotFound)
     ELSE IF found = {} THEN Result(discard(t0), NotFound)
     ELSE LET pf == TheRow(found)
          IN IF role \in {"admin", "boss", "software_engineer"}
               THEN Result(discard(t0), Served)
             ELSE IF role = "customer"
               THEN IF ~(pf.is_public
                         /\ pf.file_type \in {"contract", "tech"})
                      THEN Result(discard(t0), Rejected)
                    ELSE Result(discard(t0), Served)
             ELSE IF pf.owner_role = "" THEN Result(discard(t0), Served)
             ELSE IF user = None THEN Result(discard(t0), Error)
             ELSE IF pf.owner_role # Get(user).role
               THEN Result(discard(t0), Rejected)
             ELSE Result(discard(t0), Served)

(* delete_file with db.session.delete(pf) for pf.is_deleted = True *)
delete_file_hard(d, user, cid, file_id) ==
  LET t0 == Begin(d)
      found == {f \in filter_by_id_contract(d.files, file_id, cid) :
                  ~f.is_deleted}
  IN IF get_contract(d, cid) = {} THEN Result(discard(t0), NotFound)
     ELSE IF found = {} THEN Result(discard(t0), NotFound)
     ELSE LET pf == TheRow(found)
          IN IF user = None
                \/ (Get(user).id # pf.uploader_id
                    /\ role_of(user) \notin {"admin", "boss"})
               THEN Result(discard(t0), Rejected)
             ELSE LET t1 == delete(t0, "files", pf)
                      t2 == log_operation(t1, user, "file.delete_soft",
                                          "ProjectFile", file_id, Some(cid))
                  IN Result(commit(t2), Committed)

delete_file(d, user, cid, file_id) ==
  LET t0 == Begin(d)
      found == {f \in filter_by_id_contract(d.files, file_id, cid) :
                  ~f.is_deleted}
  IN IF get_contract(d, cid) = {} THEN Result(discard(t0), NotFound)
     ELSE IF found = {} THEN Result(discard(t0), NotFound)
     ELSE LET pf == TheRow(found)
          IN IF user = None
                \/ (Get(user).id # pf.uploader_id
                    /\ role_of(user) \notin {"admin", "boss"})
               THEN Result(discard(t0), Rejected)
             ELSE LET t1 == update(t0, "files", pf,
                                   [pf EXCEPT !.is_deleted = TRUE])
                      t2 == log_operation(t1, user, "file.delete_soft",
                                          "ProjectFile", file_id, Some(cid))
                  IN Result(commit(t2), Committed)

---------------------------------------------------------------------------
(* File policy of services/file_service.py *)

(* role texts as stored in User.role *)
RoleInputs ==
  {"", "admin", " Admin ", "boss", "software_engineer", "customer",
   " Customer ", "finance", "sales"}

UserIds == 1..2

(* whoever may ask for a file: nobody, or a user with any role *)
Requesters ==
  {None} \cup {Some([id |-> i, role |-> r]) : i \in UserIds, r \in RoleInputs}

(* ProjectFile rows as the policy reads them *)
PolicyFiles ==
  {[id |-> 1, contract_id |-> 1, uploader_id |-> u, is_deleted |-> FALSE,
    is_public |-> p, file_type |-> ft, owner_role |-> o] :
     u \in UserIds, p \in BOOLEAN, ft \in {"contract", "tech", "drawing"},
     o \in {"", "finance", "sales"}}

(* file_service._get_role *)
_get_role(user) ==
  IF user = None \/ Get(user).role = "" THEN ""
  ELSE strip_lower(Get(user).role)

(* the dict an evaluation returns; the message texts of the source are  *)
(* Chinese and written as tags, log_extra is a dict with contract_id    *)
Evaluation(allowed, flash_message, log_action, log_message, contract) ==
  [allowed |-> allowed, flash_message |-> flash_message,
   log_action |-> log_action, log_message |-> log_message,
   log_extra |-> Some([contract_id |-> Some(contract.id), other |-> "text"])]

evaluate_file_download_customer_public(user, contract, pf) ==
  LET role == _get_role(user)
      granted == Evaluation(TRUE, None, "file.download", "DOWNLOAD", contract)
  IN IF role \in {"admin", "boss", "software_engineer"} THEN granted
     ELSE IF role = "customer"
       THEN IF ~pf.is_public
              THEN Evaluation(FALSE, Some("NO_PERMISSION"),
                              "file.download_denied", "CUSTOMER_DENIED",
                              contract)
            ELSE granted
     ELSE IF pf.owner_role # "" /\ user # None
             /\ pf.owner_role # Get(user).role
       THEN Evaluation(FALSE, Some("OWN_DEPARTMENT_ONLY"),
                       "file.download_denied", "STAFF_DENIED", contract)
     ELSE granted

evaluate_file_download_raw_role(user, contract, pf) ==
  LET role == IF user = None THEN "" ELSE Get(user).role
      granted == Evaluation(TRUE, None, "file.download", "DOWNLOAD", contract)
  IN IF role \in {"admin", "boss", "software_engineer"} THEN granted
     ELSE IF role = "customer"
       THEN IF ~(pf.is_public /\ pf.file_type \in {"contract", "tech"})
              THEN Evaluation(FALSE, Some("NO_PERMISSION"),
                              "file.download_denied", "CUSTOMER_DENIED",
                              contract)
            ELSE granted
     ELSE IF pf.owner_role # "" /\ user # None
             /\ pf.owner_role # Get(user).role
       THEN Evaluation(FALSE, Some("OWN_DEPARTMENT_ONLY"),
                       "file.download_denied", "STAFF_DENIED", contract)
     ELSE granted

evaluate_file_download(user, contract, pf) ==
  LET role == _get_role(user)
      granted == Evaluation(TRUE, None, "file.download", "DOWNLOAD", contract)
  IN IF role \in {"admin", "boss", "software_engineer"} THEN granted
     ELSE IF role = "customer"
       THEN IF ~(pf.is_public /\ pf.file_type \in {"contract", "tech"})
              THEN Evaluation(FALSE, Some("NO_PERMISSION"),
                              "file.download_denied", "CUSTOMER_DENIED",
                              contract)
            ELSE granted
     ELSE IF pf.owner_role # "" /\ user # None
             /\ pf.owner_role # Get(user).role
       THEN Evaluation(FALSE, Some("OWN_DEPARTMENT_ONLY"),
                       "file.download_denied", "STAFF_DENIED", contract)
     ELSE granted

evaluate_file_delete_any_user(user, contract, pf) ==
  LET role == _get_role(user)
  IN IF user = None
       THEN Evaluation(FALSE, Some("NO_PERMISSION"), "file.delete_denied",
                       "DELETE_DENIED", contract)
     ELSE Evaluation(TRUE, None, "file.delete_soft", "DELETE_SOFT", contract)

evaluate_file_delete(user, contract, pf) ==
  LET role == _get_role(user)
  IN IF user = None
        \/ (Get(user).id # pf.uploader_id /\ role \notin {"admin", "boss"})
       THEN Evaluation(FALSE, Some("NO_PERMISSION"), "file.delete_denied",
                       "DELETE_DENIED", contract)
     ELSE Evaluation(TRUE, None, "file.delete_soft", "DELETE_SOFT", contract)

---------------------------------------------------------------------------
(* Service functions of services/: they work in the caller's session and  *)
(* leave the commit to the caller                                         *)

Returned == "returned"

Answer(t, outcome) == [t |-> t, outcome |-> outcome]

(* finance_service imports Contract and SalesInfo only: Payment, Invoice, *)
(* Refund and db are names the module never binds, so the first statement *)
(* of each function below raises NameError                                *)
finance_service_create_payment(t, contract, amount) == Answer(t, Error)

finance_service_delete_payment(t, contract, pay_id) == Answer(t, Error)

finance_service_create_invoice(t, contract, amount) == Answer(t, Error)

finance_service_delete_invoice(t, contract, inv_id) == Answer(t, Error)

finance_service_create_refund(t, contract, amount) == Answer(t, Error)

finance_service_delete_refund(t, contract, refund_id) == Answer(t, Error)

task_service_create_task(t, contract, start_date, new_id) ==
  Answer(add(t, "tasks", [id |-> new_id, contract_id |-> contract.id,
                          start_date |-> start_date]),
         Returned)

(* the keyword arguments of update_task *)
TaskFields ==
  {"name", "department_id", "person_id", "start_date", "end_date", "status",
   "remarks"}

(* update_task with `if value:` for `if value is not None:` *)
task_service_update_task_truthy(t, task, kw) ==
  LET changed == [f \in DOMAIN task |->
                    IF /\ f \in TaskFields
                       /\ kw[f] # None
                       /\ ~(f \in {"name", "status", "remarks"}
                            /\ kw[f] = Some(""))
                      THEN kw[f]
                    ELSE task[f]]
  IN Answer(update(t, "tasks", task, changed), Returned)

(* update_task: an argument that is not None is assigned to the task's  *)
(* attribute, then the session is flushed                               *)
task_service_update_task(t, task, kw) ==
  LET changed == [f \in DOMAIN task |->
                    IF f \in TaskFields /\ kw[f] # None THEN kw[f]
                    ELSE task[f]]
  IN Answer(update(t, "tasks", task, changed), Returned)

task_service_delete_task(t, contract, task_id) ==
  LET found == filter_by_id_contract(t.cur.tasks, task_id, contract.id)
  IN IF found = {} THEN Answer(t, NotFound)
     ELSE Answer(delete(t, "tasks", TheRow(found)), Returned)

---------------------------------------------------------------------------
(* The requests *)

(* no request has been served yet *)
NoRequest == [cmd |-> "none", outcome |-> "none", cid |-> 0, rid |-> 0]

(* form values of the text fields *)
TextInputs == {" ", "A"}
ProjectCodeInputs == {"", " P1 ", "P1", "P2", "P3", "P4"}
StatusInputs == {"", PASSED}

(* the request was served: the store and the response it leaves.  snap is *)
(* kept by a request that changes nothing, dropped by one that does.      *)
Reply(cmd, user, cid, rid, res) ==
  /\ Len(res.db.logs) <= MaxLogs
  /\ db' = res.db
  /\ last' = [cmd |-> cmd, outcome |-> res.outcome, cid |-> cid, rid |-> rid]
  /\ snap' = IF res.db = db THEN snap ELSE None
  /\ UNCHANGED <<status_out, finance_out, call>>

(* a request whose handler ran from its first line to its last with no   *)
(* other request in between                                              *)
Serve(cmd, user, cid, rid, res) ==
  /\ Reply(cmd, user, cid, rid, res)
  /\ UNCHANGED flight

SetPlannedDelivery ==
  \E user \in Actors, cid \in ContractIds, date_str \in DateInputs :
    Serve("set_planned_delivery", user, cid, 0,
          set_planned_delivery(db, user, cid, date_str))

NewContract ==
  \E user \in Actors, company_name \in TextInputs,
     project_code \in ProjectCodeInputs, contract_number \in TextInputs,
     name \in TextInputs, new_id \in FreshIds(db.contracts, ContractIds) :
    Serve("new_contract", user, new_id, 0,
          new_contract(db, user, company_name, project_code,
                       contract_number, name, new_id))

DeleteContract ==
  \E user \in Actors, cid \in ContractIds, fault \in BOOLEAN :
    Serve("delete_contract", user, cid, 0,
          delete_contract(db, user, cid, fault))

ManageLeaders ==
  \E user \in Actors, cid \in ContractIds, department_id \in IntInputs,
     person_id \in IntInputs, new_id \in FreshIds(db.leaders, RowIds) :
    Serve("manage_leaders", user, cid, 0,
          manage_leaders(db, user, cid, department_id, person_id, new_id))

DeleteLeader ==
  \E user \in Actors, cid \in ContractIds, rid \in RowIds :
    Serve("delete_leader", user, cid, rid, delete_leader(db, cid, rid))

ManageTasks ==
  \E user \in Actors, cid \in ContractIds, department_id \in IntInputs,
     title \in TextInputs, start_date \in DateInputs,
     new_id \in FreshIds(db.tasks, RowIds) :
    Serve("manage_tasks", user, cid, 0,
          manage_tasks(db, user, cid, department_id, title, start_date,
                       new_id))

DeleteTask ==
  \E user \in Actors, cid \in ContractIds, rid \in RowIds :
    Serve("delete_task", user, cid, rid, delete_task(db, cid, rid))

ManageProcurements ==
  \E user \in Actors, cid \in ContractIds, item_name \in TextInputs,
     new_id \in FreshIds(db.procurements, RowIds) :
    Serve("manage_procurements", user, cid, 0,
          manage_procurements(db, user, cid, item_name, new_id))

DeleteProcurement ==
  \E user \in Actors, cid \in ContractIds, rid \in RowIds :
    Serve("delete_procurement", user, cid, rid,
          delete_procurement(db, cid, rid))

ManageAcceptances ==
  \E user \in Actors, cid \in ContractIds, stage_name \in TextInputs,
     date_str \in DateInputs, status \in StatusInputs,
     new_id \in FreshIds(db.acceptances, RowIds) :
    Serve("manage_acceptances", user, cid, 0,
          manage_acceptances(db, user, cid, stage_name, date_str, status,
                             new_id))

DeleteAcceptance ==
  \E user \in Actors, cid \in ContractIds, rid \in RowIds :
    Serve("delete_acceptance", user, cid, rid,
          delete_acceptance(db, user, cid, rid))

ManageSales ==
  \E user \in Actors, cid \in ContractIds, quote_amount \in AmountInputs,
     quote_date \in DateInputs, deal_date \in DateInputs,
     new_id \in FreshIds(db.sales, ContractIds) :
    Serve("manage_sales", user, cid, 0,
          manage_sales(db, user, cid, quote_amount, quote_date, deal_date,
                       new_id))

DeleteSales ==
  \E user \in Actors, cid \in ContractIds :
    Serve("delete_sales", user, cid, 0, delete_sales(db, cid))

(* a payment was created: snap keeps the store of before and the new key *)
ManagePayments ==
  \E user \in Actors, cid \in ContractIds, amount \in AmountInputs,
     date_str \in DateInputs, new_id \in FreshIds(db.payments, RowIds) :
    LET res == manage_payments(db, user, cid, amount, date_str, new_id)
    IN /\ Len(res.db.logs) <= MaxLogs
       /\ db' = res.db
       /\ last' = [cmd |-> "manage_payments", outcome |-> res.outcome,
                   cid |-> cid, rid |-> 0]
       /\ snap' = IF res.outcome = Committed
                    THEN Some([before |-> db, pay_id |-> new_id, cid |-> cid])
                    ELSE snap
       /\ UNCHANGED <<status_out, finance_out, call, flight>>

(* the payment snap names was deleted: snap stays for the comparison *)
DeletePayment ==
  \E user \in Actors, cid \in ContractIds, rid \in RowIds :
    LET res == delete_payment(db, user, cid, rid)
    IN /\ Len(res.db.logs) <= MaxLogs
       /\ db' = res.db
       /\ last' = [cmd |-> "delete_payment", outcome |-> res.outcome,
                   cid |-> cid, rid |-> rid]
       /\ snap' = IF res.db = db THEN snap
                  ELSE IF snap # None /\ Get(snap).pay_id = rid
                          /\ Get(snap).cid = cid /\ last.cmd = "manage_payments"
                    THEN snap
                  ELSE None
       /\ UNCHANGED <<status_out, finance_out, call, flight>>

ManageInvoices ==
  \E user \in Actors, cid \in ContractIds, amount \in AmountInputs,
     date_str \in DateInputs, new_id \in FreshIds(db.invoices, RowIds) :
    Serve("manage_invoices", user, cid, 0,
          manage_invoices(db, user, cid, amount, date_str, new_id))

DeleteInvoice ==
  \E user \in Actors, cid \in ContractIds, rid \in RowIds :
    Serve("delete_invoice", user, cid, rid,
          delete_invoice(db, user, cid, rid))

ManageRefunds ==
  \E user \in Actors, cid \in ContractIds, amount \in AmountInputs,
     date_str \in DateInputs, new_id \in FreshIds(db.refunds, RowIds) :
    Serve("manage_refunds", user, cid, 0,
          manage_refunds(db, user, cid, amount, date_str, new_id))

DeleteRefund ==
  \E user \in Actors, cid \in ContractIds, rid \in RowIds :
    Serve("delete_refund", user, cid, rid, delete_refund(db, user, cid, rid))

ManageFeedbacks ==
  \E user \in Actors, cid \in ContractIds, content \in TextInputs,
     handler_id \in IntInputs, new_id \in FreshIds(db.feedbacks, RowIds) :
    Serve("manage_feedbacks", user, cid, 0,
          manage_feedbacks(db, user, cid, content, handler_id, new_id))

DeleteFeedback ==
  \E user \in Actors, cid \in ContractIds, rid \in RowIds :
    Serve("delete_feedback", user, cid, rid,
          delete_feedback(db, user, cid, rid))

ResolveFeedback ==
  \E user \in Actors, cid \in ContractIds, rid \in RowIds :
    Serve("resolve_feedback", user, cid, rid,
          resolve_feedback(db, user, cid, rid))

UnresolveFeedback ==
  \E user \in Actors, cid \in ContractIds, rid \in RowIds :
    Serve("unresolve_feedback", user, cid, rid,
          unresolve_feedback(db, user, cid, rid))

(* the users of the file requests: the session may also name no user *)
Staff ==
  Users \cup {[id |-> 2, role |-> "finance"], [id |-> 3, role |-> " Customer "]}

FileActors == {None} \cup {Some(u) : u \in Staff}

ManageFiles ==
  \E user \in FileActors, cid \in ContractIds, filename \in FileNames,
     file_type \in FileTypes, version \in VersionInputs,
     is_public \in PublicInputs, today_str \in Days,
     new_id \in FreshIds(db.files, RowIds) :
    Serve("manage_files", user, cid, 0,
          manage_files(db, user, cid, filename, file_type, version,
                       is_public, today_str, new_id))

DownloadFile ==
  \E user \in FileActors, cid \in ContractIds, rid \in RowIds :
    Serve("download_file", user, cid, rid, download_file(db, user, cid, rid))

DeleteFile ==
  \E user \in FileActors, cid \in ContractIds, rid \in RowIds :
    Serve("delete_file", user, cid, rid, delete_file(db, user, cid, rid))

(* a caller hands a loaded contract to a service function, commits when  *)
(* it returns and lets the request end when it raises                     *)
Called(cmd, cid, rid, res) ==
  /\ db' = IF res.outcome = Returned THEN commit(res.t) ELSE discard(res.t)
  /\ last' = [cmd |-> cmd,
              outcome |-> IF res.outcome = Returned THEN Committed
                          ELSE res.outcome,
              cid |-> cid, rid |-> rid]
  /\ snap' = IF res.outcome = Returned THEN None ELSE snap
  /\ UNCHANGED <<status_out, finance_out, call, flight>>

AmountValues == {float(raw).val : raw \in {"250.75", "-5.00"}}

DateValues == {None} \cup {parse_date("2024-01-15")}

CallCreatePayment ==
  \E contract \in db.contracts, amount \in AmountValues :
    Called("finance_service.create_payment", contract.id, 0,
           finance_service_create_payment(Begin(db), contract, amount))

CallDeletePayment ==
  \E contract \in db.contracts, rid \in RowIds :
    Called("finance_service.delete_payment", contract.id, rid,
           finance_service_delete_payment(Begin(db), contract, rid))

CallCreateInvoice ==
  \E contract \in db.contracts, amount \in AmountValues :
    Called("finance_service.create_invoice", contract.id, 0,
           finance_service_create_invoice(Begin(db), contract, amount))

CallDeleteInvoice ==
  \E contract \in db.contracts, rid \in RowIds :
    Called("finance_service.delete_invoice", contract.id, rid,
           finance_service_delete_invoice(Begin(db), contract, rid))

CallCreateRefund ==
  \E contract \in db.contracts, amount \in AmountValues :
    Called("finance_service.create_refund", contract.id, 0,
           finance_service_create_refund(Begin(db), contract, amount))

CallDeleteRefund ==
  \E contract \in db.contracts, rid \in RowIds :
    Called("finance_service.delete_refund", contract.id, rid,
           finance_service_delete_refund(Begin(db), contract, rid))

CallCreateTask ==
  \E contract \in db.contracts, start_date \in DateValues,
     new_id \in FreshIds(db.tasks, RowIds) :
    Called("task_service.create_task", contract.id, new_id,
           task_service_create_task(Begin(db), contract, start_date, new_id))

CallDeleteTask ==
  \E contract \in db.contracts, rid \in RowIds :
    Called("task_service.delete_task", contract.id, rid,
           task_service_delete_task(Begin(db), contract, rid))

(* argument values of update_task: None is the default of an argument  *)
(* that was left out                                                    *)
TaskKwargs ==
  [name : {None, Some(""), Some("A")},
   department_id : {None, Some(2)},
   person_id : {None, Some(2)},
   start_date : {None} \cup {parse_date("2024-01-15")},
   end_date : {None} \cup {parse_date("2024-01-15")},
   status : {None, Some(""), Some(PASSED)},
   remarks : {None, Some(""), Some("A")}]

(* a caller hands a loaded task to update_task and commits when it      *)
(* returns; one call is looked at per behaviour                         *)
CallUpdateTask ==
  \E task \in db.tasks, kw \in TaskKwargs :
    LET res == task_service_update_task(Begin(db), task, kw)
    IN /\ call = None
       /\ call' = Some([fn |-> "task_service.update_task", task |-> task,
                        kw |-> kw, before |-> db, after |-> res.t])
       /\ db' = commit(res.t)
       /\ UNCHANGED <<last, snap, status_out, finance_out, flight>>

(* upload inputs of generate_file_name: the texts of the contract, the   *)
(* form's file type and version, the uploader's name, the name of the   *)
(* uploaded file as the client sent it, the day                         *)
FileNameContracts ==
  [company : {<<>>, <<"A", " ", "/", "B">>},
   project_code : {<<"P", "1">>, <<"P", ":", "1">>},
   contract_number : {<<>>, <<"7">>},
   name : {<<"n">>, <<"a", "*", "?", " ", "b">>}]
FileTypeTexts == {<<"d", "r", "a", "w", "i", "n", "g">>, <<"t", " ", "/">>}
VersionTexts == {<<>>, <<"V", "2">>, <<"V", " ", "<", "2">>}
AuthorTexts == {<<>>, <<"u", "1">>}
OriginalNames ==
  {<<"a", ".", "P", "D", "F">>, <<"a">>, <<"a", ".", "d", "/", "w">>,
   <<"a", ".", "p", " ", "f">>, <<"a", ".", "b", ".", "p", "d", "f">>}

(* one call of generate_file_name is looked at per behaviour *)
GenerateFileName ==
  \E contract \in FileNameContracts, file_type \in FileTypeTexts,
     version \in VersionTexts, author \in AuthorTexts,
     original_filename \in OriginalNames, today_str \in Days :
    LET n == file_name_parts(contract, file_type, version, author,
                             original_filename, today_str)
    IN /\ call = None
       /\ call' = Some([fn |-> "generate_file_name", contract |-> contract,
                        file_type |-> file_type, version |-> version,
                        author |-> author,
                        original_filename |-> original_filename,
                        base |-> n.base, ext |-> n.ext,
                        result |-> generate_file_name(
                                     contract, file_type, version, author,
                                     original_filename, today_str)])
       /\ UNCHANGED <<db, last, snap, status_out, finance_out, flight>>

(* The audit-log queries *)

(* rows one page of the log views holds: the source's limit is 200, the *)
(* model's is scaled to the log lengths it reaches                      *)
PageLimit == 2

(* SQL LIKE of a pattern against a whole text, case-insensitive: % is   *)
(* any run of characters, _ any one character                           *)
RECURSIVE like(_, _)
like(pattern, text) ==
  IF pattern = <<>> THEN text = <<>>
  ELSE IF Head(pattern) = "%"
    THEN like(Tail(pattern), text)
         \/ (text # <<>> /\ like(pattern, Tail(text)))
  ELSE /\ text # <<>>
       /\ (Head(pattern) = "_" \/ lower(Head(pattern)) = lower(Head(text)))
       /\ like(Tail(pattern), Tail(text))

(* the keyword occurs in the action, letter case apart *)
ilike_literal(action, action_kw) ==
  \E i \in 0..Len(chars(action)) :
    /\ i + Len(chars(action_kw)) <= Len(chars(action))
    /\ \A j \in 1..Len(chars(action_kw)) :
         lower(chars(action)[i + j]) = lower(chars(action_kw)[j])

(* OperationLog.action.ilike(f"%{action_kw}%") *)
ilike(action, action_kw) ==
  like(<<"%">> \o chars(action_kw) \o <<"%">>, chars(action))

(* OperationLog.created_at of a row: rows are held in the order they    *)
(* were inserted, a row's position in db.logs is its primary key        *)
created_at(logs, id) == id

(* order_by(OperationLog.created_at.desc()) of a set of rows, by key *)
RECURSIVE order_by_created_at_desc(_, _)
order_by_created_at_desc(logs, ids) ==
  IF ids = {} THEN <<>>
  ELSE LET newest == CHOOSE i \in ids :
                       \A j \in ids : created_at(logs, j) <= created_at(logs, i)
       IN <<newest>> \o order_by_created_at_desc(logs, ids \ {newest})

(* Query.limit(n) *)
limit(rows, n) == IF Len(rows) <= n THEN rows ELSE SubSeq(rows, 1, n)

(* operation_logs: the keys of the rows shown, in the order shown *)
operation_logs(d, action_in, target_type_in, target_id_in) ==
  LET action_kw == strip(action_in)
      target_type == strip(target_type_in)
      target_id_raw == strip(target_id_in)
      shown(i) ==
        /\ action_kw # "" => ilike(d.logs[i].action, action_kw)
        /\ target_type # "" => d.logs[i].target_type = target_type
        /\ (target_id_raw # "" /\ ~int(target_id_raw).raised)
             => d.logs[i].target_id = int(target_id_raw).val
      ids == {i \in 1..Len(d.logs) : shown(i)}
  IN limit(order_by_created_at_desc(d.logs, ids), PageLimit)

(* contract_operation_logs: None stands for the 404 *)
contract_operation_logs(d, cid) ==
  IF get_contract(d, cid) = {} THEN None
  ELSE LET ids == {i \in 1..Len(d.logs) :
                     /\ d.logs[i].target_type = "Contract"
                     /\ d.logs[i].target_id = cid}
       IN Some(limit(order_by_created_at_desc(d.logs, ids), PageLimit))

ActionKeywords == {"", "PAYMENT", "payment_create", "create"}
TargetTypeInputs == {"", "Payment"}

OperationLogs ==
  \E action_in \in ActionKeywords, target_type_in \in TargetTypeInputs,
     target_id_in \in IntInputs :
    /\ call' = Some([fn |-> "operation_logs", action |-> action_in,
                     target_type |-> target_type_in,
                     target_id |-> target_id_in,
                     rows |-> operation_logs(db, action_in, target_type_in,
                                             target_id_in)])
    /\ UNCHANGED <<db, last, snap, status_out, finance_out, flight>>

ContractOperationLogs ==
  \E cid \in ContractIds :
    /\ call' = Some([fn |-> "contract_operation_logs", cid |-> cid,
                     rows |-> contract_operation_logs(db, cid)])
    /\ UNCHANGED <<db, last, snap, status_out, finance_out, flight>>

(* log_operation is called in a session, the request then ends without *)
(* a commit: the call and what it left in the session are kept in call; *)
(* one call is looked at per behaviour                                  *)
LogActions == {"payment.create", "contract.delete"}
LogTargetTypes == {None, Some("Payment")}
LogTargetIds == {None} \cup {Some(i) : i \in RowIds}
LogMessages == {None, Some("message")}

LogOperation ==
  \E user \in Actors, action \in LogActions, target_type \in LogTargetTypes,
     target_id \in LogTargetIds, message \in LogMessages,
     extra \in ExtraInputs, pending \in BOOLEAN :
    LET t0 == IF pending
                THEN add(Begin(db), "payments",
                         [id |-> 1, contract_id |-> 1, amount |-> Some(0)])
                ELSE Begin(db)
        res == log_operation_call(t0, user, action, target_type, target_id,
                                  message, extra)
    IN /\ call = None
       /\ call' = Some([fn |-> "log_operation", user |-> user,
                        action |-> action, target_type |-> target_type,
                        target_id |-> target_id, message |-> message,
                        extra |-> extra, before |-> t0, after |-> res.t,
                        raised |-> res.raised])
       /\ db' = discard(res.t)
       /\ UNCHANGED <<last, snap, status_out, finance_out, flight>>

(* the file policy is asked about a requester and a file of contract 1; *)
(* one evaluation is looked at per behaviour                             *)
EvaluateFileDownload ==
  \E user \in Requesters, pf \in PolicyFiles :
    /\ call = None
    /\ call' = Some([fn |-> "evaluate_file_download", user |-> user,
                     pf |-> pf,
                     result |-> evaluate_file_download(user, [id |-> 1], pf)])
    /\ UNCHANGED <<db, last, snap, status_out, finance_out, flight>>

EvaluateFileDelete ==
  \E user \in Requesters, pf \in PolicyFiles :
    /\ call = None
    /\ call' = Some([fn |-> "evaluate_file_delete", user |-> user,
                     pf |-> pf,
                     result |-> evaluate_file_delete(user, [id |-> 1], pf)])
    /\ UNCHANGED <<db, last, snap, status_out, finance_out, flight>>

(* the store after the contracts 1..n were created by the first user *)
RECURSIVE Seeded(_)
(* Requests in flight.  A handler reads the store, then writes it; the  *)
(* threaded server lets a second request read between the two.  Each   *)
(* worker thread holds at most one request.                            *)
MaxFlight == 2
Workers == 1..MaxFlight

FreeWorkers == Workers \ {f.worker : f \in flight}

InFlight(cmd, worker, user, cid, company_name, project_code, quote_amount, found) ==
  [cmd |-> cmd, worker |-> worker, user |-> user, cid |-> cid,
   company_name |-> company_name, project_code |-> project_code,
   quote_amount |-> quote_amount, found |-> found]

(* POST /contracts/new up to the existence check: a request that the    *)
(* handler turns down ends here, any other goes on to the insert        *)
NewContractCheck ==
  \E worker \in FreeWorkers, user \in Actors, company_name \in TextInputs,
     project_code \in ProjectCodeInputs, contract_number \in TextInputs,
     name \in TextInputs :
    LET res == new_contract(db, user, company_name, project_code,
                            contract_number, name, 0)
    IN IF res.outcome = Rejected
         THEN Serve("new_contract", user, 0, 0, res)
       ELSE /\ flight' = flight \cup
                 {InFlight("new_contract", worker, user, 0,
                           strip(company_name), strip(project_code),
                           None, {})}
            /\ UNCHANGED <<db, last, snap, status_out, finance_out, call>>

(* POST /contracts/new from db.session.add(contract) to the commit *)
NewContractInsert ==
  \E f \in flight, new_id \in FreshIds(db.contracts, ContractIds) :
    /\ f.cmd = "new_contract"
    /\ Reply("new_contract", f.user, new_id, 0,
             new_contract_insert(db, f.user, f.company_name, f.project_code,
                                 new_id))
    /\ flight' = flight \ {f}

(* request.form values of quote_amount posted side by side *)
QuoteInputs == {"abc", "250.75", "-5.00"}

(* POST /contracts/<id>/sales up to the validation of the form: the     *)
(* SalesInfo lookup is the first query of the handler                   *)
ManageSalesLookup ==
  \E worker \in FreeWorkers, user \in Actors, cid \in ContractIds,
     quote_amount \in QuoteInputs, quote_date \in DateInputs,
     deal_date \in DateInputs :
    LET res == manage_sales(db, user, cid, quote_amount, quote_date,
                            deal_date, 0)
    IN IF res.outcome # Committed
         THEN Serve("manage_sales", user, cid, 0, res)
       ELSE /\ flight' = flight \cup
                 {InFlight("manage_sales", worker, user, cid, "", "",
                           IF strip(quote_amount) = "" THEN None
                           ELSE Some(float(strip(quote_amount)).val),
                           filter_by_contract(db.sales, cid))}
            /\ UNCHANGED <<db, last, snap, status_out, finance_out, call>>

(* POST /contracts/<id>/sales from the update-or-insert to the commit *)
ManageSalesSave ==
  \E f \in flight, new_id \in FreshIds(db.sales, RowIds) :
    /\ f.cmd = "manage_sales"
    /\ Reply("manage_sales", f.user, f.cid, new_id,
             manage_sales_save(db, f.user, f.cid, f.quote_amount, f.found,
                               new_id))
    /\ flight' = flight \ {f}

Seeded(n) ==
  IF n = 0 THEN EmptyDb
  ELSE new_contract(Seeded(n - 1), Some(CHOOSE u \in Users : TRUE), "A",
                    <<"P1", "P2", "P3", "P4">>[n], "A", "A", n).db

(* the empty store, and the store once all the contracts but one, or all *)
(* of them, were created                                                 *)
Init ==
  /\ db \in {Seeded(n) : n \in {0, MaxContract - 1, MaxContract}}
  /\ last = NoRequest
  /\ snap = None
  /\ status_out = None
  /\ finance_out = None
  /\ call = None
  /\ flight = {}

Next ==
  \/ SetPlannedDelivery
  \/ NewContract
  \/ DeleteContract
  \/ ManageLeaders
  \/ DeleteLeader
  \/ ManageTasks
  \/ DeleteTask
  \/ ManageProcurements
  \/ DeleteProcurement
  \/ ManageAcceptances
  \/ DeleteAcceptance
  \/ ManageSales
  \/ DeleteSales
  \/ ManagePayments
  \/ DeletePayment
  \/ ManageInvoices
  \/ DeleteInvoice
  \/ ManageRefunds
  \/ DeleteRefund
  \/ ManageFeedbacks
  \/ DeleteFeedback
  \/ ResolveFeedback
  \/ UnresolveFeedback
  \/ ManageFiles
  \/ DownloadFile
  \/ DeleteFile

Spec == Init /\ [][Next]_vars

(* creation of contracts by requests that run side by side *)
NextNewContract == NewContractCheck \/ NewContractInsert

SpecNewContract == Init /\ [][NextNewContract]_vars

(* sales forms posted by requests that run side by side *)
NextSales == ManageSalesLookup \/ ManageSalesSave

SpecSales == Init /\ [][NextSales]_vars

(* the service functions under a committing caller, next to the route *)
(* that records payments                                               *)
NextService ==
  \/ CallCreatePayment
  \/ CallDeletePayment
  \/ CallCreateInvoice
  \/ CallDeleteInvoice
  \/ CallCreateRefund
  \/ CallDeleteRefund
  \/ CallCreateTask
  \/ CallDeleteTask
  \/ ManagePayments

SpecService == Init /\ [][NextService]_vars

(* the audit logger alone *)
NextLog == LogOperation

SpecLog == Init /\ [][NextLog]_vars

(* the store after the first n of these requests by the first user:    *)
(* contract 1 created, payments 1 and 2 recorded for it, payment 1      *)
(* deleted, contract 2 created, payment 2 deleted                       *)
RECURSIVE History(_)
History(n) ==
  IF n = 0 THEN EmptyDb
  ELSE LET d == History(n - 1)
           user == Some(CHOOSE u \in Users : TRUE)
       IN CASE n = 1 -> new_contract(d, user, "A", "P1", "A", "A", 1).db
            [] n = 2 -> manage_payments(d, user, 1, "250.75", "2024-01-15",
                                        1).db
            [] n = 3 -> manage_payments(d, user, 1, "250.75", "2024-01-15",
                                        2).db
            [] n = 4 -> delete_payment(d, user, 1, 1).db
            [] n = 5 -> new_contract(d, user, "A", "P2", "A", "A", 2).db
            [] OTHER -> delete_payment(d, user, 1, 2).db

InitLogQuery ==
  /\ db \in {History(n) : n \in 0..MaxLogs}
  /\ last = NoRequest
  /\ snap = None
  /\ status_out = None
  /\ finance_out = None
  /\ call = None
  /\ flight = {}

(* the log views *)
NextLogQuery ==
  \/ OperationLogs
  \/ ContractOperationLogs

SpecLogQuery == InitLogQuery /\ [][NextLogQuery]_vars

(* the file policy alone *)
NextFilePolicy ==
  \/ EvaluateFileDownload
  \/ EvaluateFileDelete

SpecFilePolicy == Init /\ [][NextFilePolicy]_vars

(* the file requests alone *)
NextFiles ==
  \/ ManageFiles
  \/ DownloadFile
  \/ DeleteFile

SpecFiles == Init /\ [][NextFiles]_vars

(* the payment requests alone *)
NextPayments ==
  \/ ManagePayments
  \/ DeletePayment

SpecPayments == Init /\ [][NextPayments]_vars

(* the leader and task requests alone *)
NextWork ==
  \/ ManageLeaders
  \/ DeleteLeader
  \/ ManageTasks
  \/ DeleteTask

SpecWork == Init /\ [][NextWork]_vars

(* the procurement requests and the contract's deletion *)
NextRemoval ==
  \/ DeleteContract
  \/ ManageProcurements
  \/ DeleteProcurement

SpecRemoval == Init /\ [][NextRemoval]_vars

(* the payment requests and the contract's deletion *)
NextAudit ==
  \/ DeleteContract
  \/ ManagePayments
  \/ DeletePayment

SpecAudit == Init /\ [][NextAudit]_vars

-----
(* Stores the read-only functions are applied to *)

MaxStatusRows == 1
MaxFinanceRows == 2

(* a contract under examination and another one beside it *)
DrawnContracts ==
  {[id |-> 1, project_code |-> "P1", planned_delivery_date |-> None],
   [id |-> 2, project_code |-> "P2", planned_delivery_date |-> None]}

(* the tables with ids among `ids` whose rows carry one of `fields` *)
DrawTable(ids, fields) ==
  {{[id |-> i] @@ f[i] : i \in {j \in ids : f[j] # None}} :
     f \in [ids -> fields \cup {None}]}

StatusStores ==
  LET ids == 1..MaxStatusRows
      extras == [EmptyDb EXCEPT
                   !.refunds = {[id |-> 1, contract_id |-> 1,
                                 amount |-> Some(1000)]},
                   !.procurements = {[id |-> 1, contract_id |-> 1]},
                   !.files = {[id |-> 1, contract_id |-> 1, uploader_id |-> 1,
                               is_deleted |-> FALSE]}]
  IN {[base EXCEPT !.contracts = DrawnContracts, !.companies = {"A"},
                   !.tasks = t, !.acceptances = a, !.payments = p,
                   !.invoices = i, !.feedbacks = f] :
        base \in {EmptyDb, extras},
        t \in DrawTable(ids, {[contract_id |-> 1, start_date |-> None],
                              [contract_id |-> 2, start_date |-> None]}),
        a \in DrawTable(ids, {[contract_id |-> 1, status |-> PASSED],
                              [contract_id |-> 1, status |-> IN_PROGRESS],
                              [contract_id |-> 2, status |-> PASSED]}),
        p \in DrawTable(ids, {[contract_id |-> 1, amount |-> Some(10000)]}),
        i \in DrawTable(ids, {[contract_id |-> 1, amount |-> Some(10000)]}),
        f \in DrawTable(ids, {[contract_id |-> 1, is_resolved |-> TRUE],
                              [contract_id |-> 1, is_resolved |-> FALSE],
                              [contract_id |-> 2, is_resolved |-> FALSE]})}

InitStatus ==
  /\ db \in StatusStores
  /\ last = NoRequest
  /\ snap = None
  /\ status_out = None
  /\ finance_out = None
  /\ call = None
  /\ flight = {}

(* a page that shows the status of contract cid (list_contracts,          *)
(* contract_overview)                                                     *)
ReadStatus(cid) ==
  /\ get_contract(db, cid) # {}
  /\ status_out' = Some([cid |-> cid, status |-> get_contract_status(db, cid)])
  /\ UNCHANGED <<db, last, snap, finance_out, call, flight>>

NextStatus == \E cid \in ContractIds : ReadStatus(cid)

SpecStatus == InitStatus /\ [][NextStatus]_vars

(* the child tables of a contract, in the order delete_contract names them *)
ChildTables ==
  {"tasks", "procurements", "acceptances", "payments", "invoices",
   "refunds", "feedbacks", "leaders", "sales", "files"}

(* a row of each child table as its create handler stores it *)
ChildRow(table, id, cid) ==
  CASE table = "tasks" -> [id |-> id, contract_id |-> cid, start_date |-> None]
    [] table = "procurements" -> [id |-> id, contract_id |-> cid]
    [] table = "acceptances" ->
         [id |-> id, contract_id |-> cid, status |-> PASSED]
    [] table \in {"payments", "invoices", "refunds"} ->
         [id |-> id, contract_id |-> cid, amount |-> Some(10000)]
    [] table = "feedbacks" ->
         [id |-> id, contract_id |-> cid, is_resolved |-> FALSE]
    [] table = "leaders" ->
         [id |-> id, contract_id |-> cid, department_id |-> 1,
          person_id |-> 1]
    [] table = "sales" ->
         [id |-> id, contract_id |-> cid, quote_amount |-> Some(10000)]
    [] table = "files" ->
         [id |-> id, contract_id |-> cid, uploader_id |-> 1,
          is_deleted |-> (id = 1), is_public |-> FALSE,
          file_type |-> "contract", owner_role |-> "admin",
          stored_filename |-> <<"f", <<"1", "2">>[id]>>]

(* two contracts; a child table is empty or holds one row of each         *)
(* contract, the file of contract 1 being soft-deleted already            *)
CascadeStores ==
  {[table \in DOMAIN EmptyDb |->
      IF table = "contracts" THEN DrawnContracts
      ELSE IF table = "companies" THEN {"A"}
      ELSE IF table \in filled
        THEN {ChildRow(table, c.id, c.id) : c \in DrawnContracts}
      ELSE EmptyDb[table]] : filled \in SUBSET ChildTables}

InitCascade ==
  /\ db \in CascadeStores
  /\ last = NoRequest
  /\ snap = None
  /\ status_out = None
  /\ finance_out = None
  /\ call = None
  /\ flight = {}

NextCascade == DeleteContract

SpecCascade == InitCascade /\ [][NextCascade]_vars

(* tasks as the task service writes them: one with every field set, one *)
(* with the nullable fields empty                                       *)
ServiceTasks ==
  {[id |-> 1, contract_id |-> 1, name |-> Some("T"),
    department_id |-> Some(1), person_id |-> Some(1),
    start_date |-> Some("D20231201"), end_date |-> Some("D20231231"),
    status |-> Some(IN_PROGRESS), remarks |-> Some("R")],
   [id |-> 2, contract_id |-> 2, name |-> Some("A"),
    department_id |-> None, person_id |-> None, start_date |-> None,
    end_date |-> None, status |-> None, remarks |-> None]}

InitTaskService ==
  /\ db \in {[EmptyDb EXCEPT !.contracts = DrawnContracts,
                              !.companies = {"A"}, !.tasks = tasks] :
               tasks \in SUBSET ServiceTasks}
  /\ last = NoRequest
  /\ snap = None
  /\ status_out = None
  /\ finance_out = None
  /\ call = None
  /\ flight = {}

NextTaskService == CallUpdateTask

SpecTaskService == InitTaskService /\ [][NextTaskService]_vars

(* the naming of stored files alone *)
NextFileName == GenerateFileName

SpecFileName == Init /\ [][NextFileName]_vars

FinanceStores ==
  LET ids == 1..MaxFinanceRows
  IN {[EmptyDb EXCEPT !.contracts = DrawnContracts, !.companies = {"A"},
                      !.payments = p, !.refunds = r, !.invoices = i,
                      !.sales = s \cup {[id |-> 2, contract_id |-> 2,
                                         quote_amount |-> Some(5000)]}] :
        p \in DrawTable(ids, {[contract_id |-> 1, amount |-> None],
                              [contract_id |-> 1, amount |-> Some(5050)],
                              [contract_id |-> 1, amount |-> Some(10000)],
                              [contract_id |-> 1, amount |-> Some(60000)],
                              [contract_id |-> 2, amount |-> Some(10000)]}),
        r \in DrawTable({1, 2}, {[contract_id |-> 1, amount |-> None],
                                 [contract_id |-> 1, amount |-> Some(1000)],
                                 [contract_id |-> 2, amount |-> Some(1000)]}),
        i \in DrawTable({1, 2}, {[contract_id |-> 1, amount |-> None],
                                 [contract_id |-> 1,
                                  amount |-> Some(120000)]}),
        s \in DrawTable({1}, {[contract_id |-> 1, quote_amount |-> None],
                              [contract_id |-> 1, quote_amount |-> Some(0)],
                              [contract_id |-> 1,
                               quote_amount |-> Some(100000)]})}

InitFinance ==
  /\ db \in FinanceStores
  /\ last = NoRequest
  /\ snap = None
  /\ status_out = None
  /\ finance_out = None
  /\ call = None
  /\ flight = {}

(* the sales row get_contract_finance_summary works with: the one passed  *)
(* in, else the result of its own query                                   *)
lookup_sales(d, cid, sales) ==
  IF sales = None THEN first(filter_by_contract(d.sales, cid)) ELSE {sales}

(* a caller asks for the finance summary of contract cid, passing the     *)
(* contract's SalesInfo row or nothing                                    *)
ReadFinance(cid) ==
  /\ get_contract(db, cid) # {}
  /\ \E passed \in {None} \cup first(filter_by_contract(db.sales, cid)) :
       \E sales \in lookup_sales(db, cid, passed) :
         finance_out' =
           Some([cid |-> cid,
                 summary |-> get_contract_finance_summary(db, cid, sales)])
  /\ UNCHANGED <<db, last, snap, status_out, call, flight>>

NextFinance == \E cid \in ContractIds : ReadFinance(cid)

SpecFinance == InitFinance /\ [][NextFinance]_vars

---------------------------------------------------------------------------
(* Properties of the status deriver (SpecStatus) *)

(* contract cid has a row in the table *)
HasRow(rows, cid) == \E r \in rows : r.contract_id = cid

(* the colour level that goes with a status text *)
LevelOf(text) ==
  CASE text = NOT_STARTED -> "grey"
    [] text = IN_PRODUCTION -> "blue"
    [] text = ACCEPTED_AWAITING_PAYMENT -> "orange"
    [] text = PAID_WITH_OPEN_ISSUES -> "red"
    [] text = COMPLETE -> "green"

(* C1: a contract with no Task, no Acceptance, no Payment and no Invoice  *)
(* row is reported as NOT_STARTED with level grey, whatever its Feedback, *)
(* Refund, ProcurementItem and ProjectFile rows are.                      *)
C1_NotStarted ==
  status_out # None =>
    LET cid == Get(status_out).cid
        st == Get(status_out).status
    IN (/\ ~HasRow(db.tasks, cid)
        /\ ~HasRow(db.acceptances, cid)
        /\ ~HasRow(db.payments, cid)
        /\ ~HasRow(db.invoices, cid))
       => st.text = NOT_STARTED /\ st.level = "grey"

(* a contract with nothing but an unresolved feedback, a refund, a        *)
(* procurement item and a file has been read as NOT_STARTED               *)
C1_Witness ==
  /\ status_out # None
  /\ LET cid == Get(status_out).cid
     IN /\ ~HasRow(db.tasks, cid)
        /\ ~HasRow(db.acceptances, cid)
        /\ ~HasRow(db.payments, cid)
        /\ ~HasRow(db.invoices, cid)
        /\ \E f \in db.feedbacks : f.contract_id = cid /\ ~f.is_resolved
        /\ HasRow(db.refunds, cid)
        /\ HasRow(db.procurements, cid)
        /\ HasRow(db.files, cid)
        /\ Get(status_out).status.text = NOT_STARTED

(* C2: a contract the NOT_STARTED rule does not match follows the ordered *)
(* table: no passed acceptance gives IN_PRODUCTION/blue; a passed         *)
(* acceptance and no payment ACCEPTED_AWAITING_PAYMENT/orange; a passed   *)
(* acceptance, a payment and an unresolved feedback                       *)
(* PAID_WITH_OPEN_ISSUES/red; a passed acceptance, a payment and no       *)
(* unresolved feedback COMPLETE/green; a text always has its one level.   *)
C2_StatusTable ==
  status_out # None =>
    LET cid == Get(status_out).cid
        st == Get(status_out).status
        started == \/ HasRow(db.tasks, cid)
                   \/ HasRow(db.acceptances, cid)
                   \/ HasRow(db.payments, cid)
                   \/ HasRow(db.invoices, cid)
        passed == \E a \in db.acceptances :
                    a.contract_id = cid /\ a.status = PASSED
        paid == HasRow(db.payments, cid)
        open == \E f \in db.feedbacks : f.contract_id = cid /\ ~f.is_resolved
        expected == IF ~passed THEN IN_PRODUCTION
                    ELSE IF ~paid THEN ACCEPTED_AWAITING_PAYMENT
                    ELSE IF open THEN PAID_WITH_OPEN_ISSUES
                    ELSE COMPLETE
    IN /\ started => st.text = expected
       /\ st.level = LevelOf(st.text)

(* a paid contract with a passed acceptance and an open feedback has been *)
(* read as PAID_WITH_OPEN_ISSUES                                          *)
C2_Witness ==
  /\ status_out # None
  /\ LET cid == Get(status_out).cid
     IN /\ \E a \in db.acceptances : a.contract_id = cid /\ a.status = PASSED
        /\ HasRow(db.payments, cid)
        /\ \E f \in db.feedbacks : f.contract_id = cid /\ ~f.is_resolved
        /\ Get(status_out).status.text = PAID_WITH_OPEN_ISSUES
        /\ Get(status_out).status.level = "red"

(* C3: get_contract_status never returns from its final fallback (source  *)
(* line 98): one of the five rules before it returns.                     *)
C3_FallbackUnreachable ==
  status_out # None => Get(status_out).status.line \in {78, 83, 87, 91, 95}

(* the fifth rule, the last before the fallback, has returned *)
C3_Witness ==
  /\ status_out # None
  /\ Get(status_out).status.line = 95
  /\ Get(status_out).status.text = COMPLETE

---------------------------------------------------------------------------
(* Properties of the finance aggregator (SpecFinance) *)

RECURSIVE TotalOver(_, _)
(* the amounts of the rows with an id up to n, an absent amount as zero *)
TotalOver(rows, n) ==
  IF n = 0 THEN 0
  ELSE TotalOver(rows, n - 1)
       + (IF \E r \in rows : r.id = n /\ r.amount # None
            THEN Get((CHOOSE r \in rows : r.id = n).amount) ELSE 0)

(* the total of contract cid's rows of a table *)
Total(rows, cid) ==
  TotalOver({r \in rows : r.contract_id = cid}, MaxRow + MaxFinanceRows)

(* C4: paid_total, refund_total and invoiced_total are the sums of the    *)
(* contract's Payment, Refund and Invoice amounts in cents, an absent     *)
(* amount counting as zero, and net_received = paid_total - refund_total. *)
C4_FinanceTotals ==
  finance_out # None =>
    LET cid == Get(finance_out).cid
        f == Get(finance_out).summary
    IN /\ f.paid_total = Total(db.payments, cid)
       /\ f.refund_total = Total(db.refunds, cid)
       /\ f.invoiced_total = Total(db.invoices, cid)
       /\ f.net_received = Total(db.payments, cid) - Total(db.refunds, cid)

(* payments 100.00 and 50.50 with one refund of 10.00 were summed to a    *)
(* net 140.50 while an invoice without amount was on the contract         *)
C4_Witness ==
  /\ finance_out # None
  /\ LET cid == Get(finance_out).cid
         f == Get(finance_out).summary
     IN /\ {p.amount : p \in {r \in db.payments : r.contract_id = cid}}
             = {Some(10000), Some(5050)}
        /\ {p.amount : p \in {r \in db.refunds : r.contract_id = cid}}
             = {Some(1000)}
        /\ \E i \in db.invoices : i.contract_id = cid /\ i.amount = None
        /\ f.paid_total = 15050
        /\ f.net_received = 14050

(* contract cid has no SalesInfo row with a quote amount *)
QuoteAbsent(cid) ==
  \A s \in db.sales : s.contract_id = cid => s.quote_amount = None

(* C5: without a SalesInfo row, or with one whose quote_amount is None,   *)
(* receivable_remaining and invoice_remaining are both None, never 0.     *)
C5_NoQuoteNoRemainder ==
  finance_out # None =>
    LET cid == Get(finance_out).cid
        f == Get(finance_out).summary
    IN QuoteAbsent(cid) =>
         /\ f.quote_amount = None
         /\ f.receivable_remaining = None
         /\ f.invoice_remaining = None

(* a contract with payments, invoices and a SalesInfo row without quote   *)
(* was summarised                                                         *)
C5_Witness ==
  /\ finance_out # None
  /\ LET cid == Get(finance_out).cid
         f == Get(finance_out).summary
     IN /\ \E s \in db.sales : s.contract_id = cid /\ s.quote_amount = None
        /\ f.paid_total > 0
        /\ f.invoiced_total > 0
        /\ f.receivable_remaining = None

(* C6: with a quote amount present (0 included) receivable_remaining is   *)
(* quote_amount - net_received and invoice_remaining is                   *)
(* quote_amount - invoiced_total, negative results included.              *)
C6_Remainders ==
  finance_out # None =>
    LET cid == Get(finance_out).cid
        f == Get(finance_out).summary
        net == Total(db.payments, cid) - Total(db.refunds, cid)
    IN \A s \in db.sales :
         (s.contract_id = cid /\ s.quote_amount # None) =>
           /\ f.quote_amount = s.quote_amount
           /\ f.receivable_remaining = Some(Get(s.quote_amount) - net)
           /\ f.invoice_remaining =
                Some(Get(s.quote_amount) - Total(db.invoices, cid))

(* quote 1000.00 and net received 600.00 gave 400.00 to receive, while    *)
(* invoices beyond the quote gave a negative amount left to invoice       *)
C6_Witness ==
  /\ finance_out # None
  /\ LET f == Get(finance_out).summary
     IN /\ f.quote_amount = Some(100000)
        /\ f.net_received = 60000
        /\ f.receivable_remaining = Some(40000)
        /\ f.invoice_remaining = Some(-20000)

---------------------------------------------------------------------------
(* Audit trail and deletions *)

(* C7: every request that commits a change to a business row persists an *)
(* OperationLog entry in the same transaction: no step changes the       *)
(* business tables without the log growing by one entry.                 *)
C7_EveryMutationLogged ==
  [][Business(db') # Business(db) => Len(db'.logs) = Len(db.logs) + 1]_vars

(* C8: a request that did not commit leaves the store, log included, as  *)
(* it was, also when it raised after log_operation was called; a log     *)
(* entry is persisted only together with a committed change.             *)
C8_NoLogForFailedMutation ==
  [][/\ (last'.outcome # Committed => db' = db)
     /\ (db'.logs # db.logs =>
           /\ last'.outcome = Committed
           /\ Len(db'.logs) = Len(db.logs) + 1
           /\ Business(db') # Business(db))]_vars

(* delete_contract raised inside its cascade, after log_operation: the  *)
(* contract, its procurement rows and the log are as before              *)
C8_Witness ==
  /\ last.cmd = "delete_contract"
  /\ last.outcome = Error
  /\ get_contract(db, last.cid) # {}
  /\ filter_by_contract(db.procurements, last.cid) # {}
  /\ \A i \in 1..Len(db.logs) : db.logs[i].action # "contract.delete"

(* the table a delete command looks its row up in *)
DeleteCommands ==
  {"delete_payment", "delete_invoice", "delete_refund", "delete_task",
   "delete_leader", "delete_procurement", "finance_service.delete_payment",
   "finance_service.delete_invoice", "finance_service.delete_refund",
   "task_service.delete_task"}

TableOf(cmd) ==
  CASE cmd \in {"delete_payment", "finance_service.delete_payment"}
         -> "payments"
    [] cmd \in {"delete_invoice", "finance_service.delete_invoice"}
         -> "invoices"
    [] cmd \in {"delete_refund", "finance_service.delete_refund"}
         -> "refunds"
    [] cmd \in {"delete_task", "task_service.delete_task"} -> "tasks"
    [] cmd = "delete_leader" -> "leaders"
    [] cmd = "delete_procurement" -> "procurements"

(* C9: a delete of a child record whose (id, contract_id) pair matches   *)
(* no row ends in not-found, writes no log entry and leaves every table  *)
(* unchanged.                                                            *)
C9_NoMatchIsNotFound ==
  [][(/\ last'.cmd \in DeleteCommands
      /\ filter_by_id_contract(db[TableOf(last'.cmd)], last'.rid,
                               last'.cid) = {})
       => (last'.outcome = NotFound /\ db' = db)]_vars

(* C10: a payment created for a contract and then deleted leaves the     *)
(* contract's payment rows as they were before the create, and the log   *)
(* two entries longer: payment.create, then payment.delete, both naming  *)
(* that contract.                                                        *)
C10_PaymentRoundTrip ==
  (/\ last.cmd = "delete_payment"
   /\ last.outcome = Committed
   /\ snap # None)
    => LET before == Get(snap).before
           cid == Get(snap).cid
           n == Len(before.logs)
       IN /\ last.cid = cid
          /\ last.rid = Get(snap).pay_id
          /\ filter_by_contract(db.payments, cid)
               = filter_by_contract(before.payments, cid)
          /\ Len(db.logs) = n + 2
          /\ SubSeq(db.logs, 1, n) = before.logs
          /\ db.logs[n + 1].action = "payment.create"
          /\ db.logs[n + 2].action = "payment.delete"
          /\ db.logs[n + 1].contract_id = Some(cid)
          /\ db.logs[n + 2].contract_id = Some(cid)

(* the round trip ran for a contract that already had another payment *)
C10_Witness ==
  /\ last.cmd = "delete_payment"
  /\ last.outcome = Committed
  /\ snap # None
  /\ filter_by_contract(Get(snap).before.payments, Get(snap).cid) # {}
  /\ filter_by_contract(db.payments, Get(snap).cid) # {}

(* C11: the audit log is append-only: whatever request is served, every *)
(* OperationLog row committed before it is still there afterwards, in    *)
(* place and with the same fields, also when the contract or the row it  *)
(* names is deleted.                                                     *)
C11_LogAppendOnly ==
  [][/\ Len(db'.logs) >= Len(db.logs)
     /\ SubSeq(db'.logs, 1, Len(db.logs)) = db.logs]_vars

(* a contract was deleted and the log still holds the entry of a payment *)
(* recorded for it                                                       *)
C11_Witness ==
  /\ last.cmd = "delete_contract"
  /\ last.outcome = Committed
  /\ get_contract(db, last.cid) = {}
  /\ \E i \in 1..Len(db.logs) :
       /\ db.logs[i].action = "payment.create"
       /\ db.logs[i].contract_id = Some(last.cid)
       /\ filter_by_id_contract(db.payments, db.logs[i].target_id,
                                last.cid) = {}

(* C12: a call of log_operation adds exactly one OperationLog row to the *)
(* session and commits nothing; the row carries the actor, action,      *)
(* target and message it was given; with extra absent, empty or not     *)
(* serialisable the row is still added, its extra payload absent, and   *)
(* the call does not raise.                                             *)
C12_LogOperationAddsOne ==
  (call # None /\ Get(call).fn = "log_operation") =>
    LET c == Get(call)
        n == Len(c.before.cur.logs)
        row == c.after.cur.logs[n + 1]
    IN /\ ~c.raised
       /\ c.after.base = c.before.base
       /\ Len(c.after.cur.logs) = n + 1
       /\ SubSeq(c.after.cur.logs, 1, n) = c.before.cur.logs
       /\ Business(c.after.cur) = Business(c.before.cur)
       /\ row.user_id = (IF c.user = None THEN None
                         ELSE Some(Get(c.user).id))
       /\ row.action = c.action
       /\ row.target_type = c.target_type
       /\ row.target_id = c.target_id
       /\ row.message = c.message
       /\ (~truthy(c.extra) \/ json_dumps(Get(c.extra)).raised)
            => row.extra_data = None

(* extra held an object json cannot encode: the row is in the session  *)
(* without extra payload, next to a pending payment                     *)
C12_Witness ==
  /\ call # None
  /\ Get(call).fn = "log_operation"
  /\ truthy(Get(call).extra)
  /\ json_dumps(Get(Get(call).extra)).raised
  /\ Get(call).before.cur.payments # Get(call).before.base.payments
  /\ Len(Get(call).after.cur.logs) = Len(Get(call).before.cur.logs) + 1
  /\ db.logs = Get(call).before.base.logs

(* the rows of the log that match every filter a query supplied: the   *)
(* action holds the keyword, the target type is the one asked for, the  *)
(* target id is the integer asked for                                   *)
Matching(c) ==
  {i \in 1..Len(db.logs) :
     /\ c.action # "" => ilike_literal(db.logs[i].action, c.action)
     /\ c.target_type # "" => db.logs[i].target_type = c.target_type
     /\ ~int(c.target_id).raised
          => db.logs[i].target_id = int(c.target_id).val}

(* rows runs from newer to older and holds the newest of the set, all   *)
(* of them when they fit one page                                       *)
NewestPage(rows, ids) ==
  /\ \A k \in 1..Len(rows) : rows[k] \in ids
  /\ \A k \in 1..(Len(rows) - 1) : rows[k] > rows[k + 1]
  /\ Len(rows) = (IF Cardinality(ids) <= PageLimit THEN Cardinality(ids)
                  ELSE PageLimit)
  /\ \A i \in ids : \A k \in 1..Len(rows) : i > rows[k] => i \in
       {rows[m] : m \in 1..Len(rows)}

(* C13: the audit-log query returns only rows that match every filter  *)
(* supplied (keyword in the action, exact target type, exact integer   *)
(* target id), newest first, at most one page of them, and the newest  *)
(* ones when more match.                                               *)
C13_LogQuery ==
  /\ (call # None /\ Get(call).fn = "operation_logs")
       => NewestPage(Get(call).rows, Matching(Get(call)))
  /\ (call # None /\ Get(call).fn = "contract_operation_logs"
      /\ Get(call).rows # None)
       => NewestPage(Get(Get(call).rows),
                     {i \in 1..Len(db.logs) :
                        /\ db.logs[i].target_type = "Contract"
                        /\ db.logs[i].target_id = Get(call).cid})

(* the same when the keyword holds no LIKE wildcard *)
C13_LogQueryPlainKeyword ==
  (call # None /\ Get(call).fn = "operation_logs"
   /\ Get(call).action # "payment_create")
    => NewestPage(Get(call).rows, Matching(Get(call)))

(* more rows match than a page holds *)
C13_PageFull ==
  /\ call # None
  /\ Get(call).fn = "operation_logs"
  /\ Get(call).action = "PAYMENT"
  /\ Cardinality(Matching(Get(call))) > PageLimit
  /\ Len(Get(call).rows) = PageLimit

---------------------------------------------------------------------------
(* File policy *)

Download(c) == c # None /\ Get(c).fn = "evaluate_file_download"

(* C14: a requester whose role is none of admin, boss,                  *)
(* software_engineer, customer - no role and no user included - may     *)
(* download only a file whose owner_role is unset or is the user's      *)
(* role; otherwise the answer is allowed = FALSE with log_action        *)
(* file.download_denied.                                                *)
C14_OtherRolesOwnFiles ==
  (/\ Download(call)
   /\ _get_role(Get(call).user) \notin
        {"admin", "boss", "software_engineer", "customer"})
    => LET c == Get(call)
           own == \/ c.pf.owner_role = ""
                  \/ (c.user # None /\ c.pf.owner_role = Get(c.user).role)
       IN /\ c.result.allowed <=> own
          /\ ~own => c.result.log_action = "file.download_denied"

(* the same for a requester that exists *)
C14_OtherRolesWithUser ==
  (/\ Download(call)
   /\ Get(call).user # None
   /\ _get_role(Get(call).user) \notin
        {"admin", "boss", "software_engineer", "customer"})
    => LET c == Get(call)
           own == c.pf.owner_role = "" \/ c.pf.owner_role = Get(c.user).role
       IN /\ c.result.allowed <=> own
          /\ ~own => c.result.log_action = "file.download_denied"

(* a finance user was refused a file of the sales department *)
C14_StaffRefused ==
  /\ Download(call)
  /\ Get(call).user # None
  /\ Get(Get(call).user).role = "finance"
  /\ Get(call).pf.owner_role = "sales"
  /\ ~Get(call).result.allowed

(* C15: a customer may download exactly the public files of type        *)
(* contract or tech; every other answer to a customer is allowed =      *)
(* FALSE with a denial message and log_action file.download_denied.     *)
C15_CustomerPublicOnly ==
  (Download(call) /\ _get_role(Get(call).user) = "customer")
    => LET c == Get(call)
           open == c.pf.is_public /\ c.pf.file_type \in {"contract", "tech"}
       IN /\ c.result.allowed <=> open
          /\ ~open => /\ c.result.flash_message # None
                      /\ Get(c.result.flash_message) # ""
                      /\ c.result.log_action = "file.download_denied"

(* a customer was refused a public drawing *)
C15_Witness ==
  /\ Download(call)
  /\ Get(call).user # None
  /\ Get(Get(call).user).role = " Customer "
  /\ Get(call).pf.is_public
  /\ Get(call).pf.file_type = "drawing"
  /\ ~Get(call).result.allowed

(* C16: a requester whose role, trimmed and lower-cased, is admin, boss *)
(* or software_engineer may download every file, with log_action       *)
(* file.download.                                                       *)
C16_PrivilegedRolesAll ==
  (/\ Download(call)
   /\ Get(call).user # None
   /\ strip_lower(Get(Get(call).user).role) \in
        {"admin", "boss", "software_engineer"})
    => /\ Get(call).result.allowed
       /\ Get(call).result.log_action = "file.download"

(* " Admin " downloaded a private file of another department *)
C16_Witness ==
  /\ Download(call)
  /\ Get(call).user # None
  /\ Get(Get(call).user).role = " Admin "
  /\ ~Get(call).pf.is_public
  /\ Get(call).pf.owner_role = "finance"
  /\ Get(call).result.allowed

(* the delete rule: the requester exists and is the uploader or has    *)
(* role admin or boss                                                   *)
MayDelete(user, pf) ==
  /\ user # None
  /\ (Get(user).id = pf.uploader_id
      \/ strip_lower(Get(user).role) \in {"admin", "boss"})

(* C17: evaluate_file_delete allows, with log_action file.delete_soft,  *)
(* exactly the requesters the delete rule admits and answers every      *)
(* other one, an absent user included, with allowed = FALSE and         *)
(* log_action file.delete_denied; the route delete_file leaves the      *)
(* store as it is for a requester the rule denies.                      *)
C17_DeleteRule ==
  \A pf \in {f \in db.files : ~f.is_deleted} :
    \A user \in Requesters \cup FileActors :
      LET ev == evaluate_file_delete(user, [id |-> pf.contract_id], pf)
      IN /\ ev.allowed <=> MayDelete(user, pf)
         /\ ev.allowed => ev.log_action = "file.delete_soft"
         /\ ~ev.allowed =>
              /\ ev.log_action = "file.delete_denied"
              /\ delete_file(db, user, pf.contract_id, pf.id).db = db

(* delete_file turned a requester away and the file is still there, and *)
(* it is a file uploaded by somebody without the role admin or boss     *)
C17_Witness ==
  /\ last.cmd = "delete_file"
  /\ last.outcome = Rejected
  /\ \E pf \in filter_by_id_contract(db.files, last.rid, last.cid) :
       ~pf.is_deleted /\ pf.owner_role = "finance"

(* C18: every download or delete attempt on a file, allowed or denied,  *)
(* leaves one more OperationLog entry, with an action of the file       *)
(* policy.                                                              *)
C18_FileAttemptsLogged ==
  [][(/\ last' # last
      /\ last'.cmd \in {"download_file", "delete_file"}
      /\ last'.outcome \in {Served, Rejected, Committed})
       => /\ Len(db'.logs) = Len(db.logs) + 1
          /\ db'.logs[Len(db'.logs)].action \in
               {"file.download", "file.download_denied",
                "file.delete_soft", "file.delete_denied"}]_vars

(* what the evaluations hand to the caller is a complete record *)
C18_EvaluationsComplete ==
  (call # None
   /\ Get(call).fn \in {"evaluate_file_download", "evaluate_file_delete"})
    => /\ Get(call).result.log_action # ""
       /\ Get(call).result.log_message # ""
       /\ truthy(Get(call).result.log_extra)

(* C19: Contract.project_code is unique across all contracts, also when *)
(* two new_contract requests run between each other's existence check   *)
(* and commit; a new_contract request that is turned down, at the check *)
(* or at the insert, leaves the store as it was: no contract row and no *)
(* contract.create log entry.                                           *)
C19_ProjectCodeUnique ==
  /\ [](\A c1, c2 \in db.contracts :
          c1.project_code = c2.project_code => c1 = c2)
  /\ [][last'.cmd = "new_contract" /\ last'.outcome \in {Rejected, Error}
        => db' = db]_vars

(* a request passed the existence check, another one committed the same *)
(* project code before its insert, and the insert was refused           *)
C19_Witness ==
  /\ last.cmd = "new_contract"
  /\ last.outcome = Error
  /\ Cardinality(db.contracts) = 1
  /\ Len(db.logs) = 1

(* C20: a contract has at most one SalesInfo row, also when two          *)
(* manage_sales POSTs run between each other's lookup and commit.        *)
C20_OneSalesInfo ==
  \A cid \in ContractIds :
    Cardinality(filter_by_contract(db.sales, cid)) <= 1

(* the same for a request whose lookup is still what the store holds   *)
(* when it writes (no other request committed a SalesInfo of its       *)
(* contract in between): its update-or-insert keeps at most one row    *)
C20_OneSalesInfoSerial ==
  [][(/\ \A f \in flight \ flight' :
           f.found = filter_by_contract(db.sales, f.cid)
      /\ C20_OneSalesInfo)
       => C20_OneSalesInfo']_vars

(* a second POST found the row of the first and updated it *)
C20_Updated ==
  /\ last.cmd = "manage_sales"
  /\ last.outcome = Committed
  /\ Len(db.logs) > 0
  /\ db.logs[Len(db.logs)].action = "sales.update"
  /\ C20_OneSalesInfo

(* C21: after delete_contract commits for contract c, no child row with *)
(* contract_id = c remains in any of the ten child tables (ProjectFile   *)
(* rows are removed, not soft-deleted), the Contract row is gone, the    *)
(* rows of every other contract are unchanged, and exactly one           *)
(* contract.delete log entry with target id c was added.                 *)
C21_DeleteContractCascade ==
  [][last'.cmd = "delete_contract" /\ last'.outcome = Committed
       /\ get_contract(db, last'.cid) # {}
     => LET c == last'.cid
        IN /\ \A table \in ChildTables :
                db'[table] = {r \in db[table] : r.contract_id # c}
           /\ db'.contracts = {r \in db.contracts : r.id # c}
           /\ db'.companies = db.companies
           /\ Len(db'.logs) = Len(db.logs) + 1
           /\ SubSeq(db'.logs, 1, Len(db.logs)) = db.logs
           /\ db'.logs[Len(db'.logs)].action = "contract.delete"
           /\ db'.logs[Len(db'.logs)].target_type = "Contract"
           /\ db'.logs[Len(db'.logs)].target_id = c]_vars

(* contract 1, which had a row in every child table and a soft-deleted  *)
(* file, was deleted; contract 2 keeps its row in every table           *)
C21_Witness ==
  /\ last.cmd = "delete_contract"
  /\ last.outcome = Committed
  /\ last.cid = 1
  /\ Ids(db.contracts) = {2}
  /\ \A table \in ChildTables : db[table] = {ChildRow(table, 2, 2)}

(* a form value that is a decimal number, a form value that is a        *)
(* calendar date                                                        *)
WellFormedAmount(raw) == strip(raw) \in {"250.75", "-5.00", "100.00", "0"}
WellFormedDate(raw) == strip(raw) = "2024-01-15"

(* the money part of C22: a Payment, Invoice or Refund form whose       *)
(* amount or date is missing or malformed is rejected and leaves the    *)
(* store, log included, as it was                                       *)
C22_MoneyRejectsBadInput ==
  \A user \in Actors, cid \in ContractIds, amount \in AmountInputs,
     date \in DateInputs, new_id \in RowIds :
    (get_contract(db, cid) # {}
       /\ ~(WellFormedAmount(amount) /\ WellFormedDate(date)))
    => \A res \in {manage_payments(db, user, cid, amount, date, new_id),
                   manage_invoices(db, user, cid, amount, date, new_id),
                   manage_refunds(db, user, cid, amount, date, new_id)} :
         res.outcome = Rejected /\ res.db = db

(* the task part of C22: a Task form whose start date is missing or     *)
(* malformed is rejected and leaves the store as it was                 *)
C22_TaskRejectsBadInput ==
  \A user \in Actors, cid \in ContractIds, department_id \in IntInputs,
     title \in TextInputs, start_date \in DateInputs, new_id \in RowIds :
    (get_contract(db, cid) # {} /\ ~WellFormedDate(start_date))
    => LET res == manage_tasks(db, user, cid, department_id, title,
                               start_date, new_id)
       IN res.outcome = Rejected /\ res.db = db

(* C22: creating a Payment, Invoice or Refund whose amount or date is   *)
(* missing or malformed, or a Task whose required start date is missing *)
(* or malformed, is rejected before any mutation: no row, no commit, no *)
(* log entry; a malformed value never silently becomes empty.           *)
C22_RejectsBadInput ==
  /\ C22_MoneyRejectsBadInput
  /\ C22_TaskRejectsBadInput

(* what the store then holds: a task without the start date the form   *)
(* requires                                                             *)
C22_NoTaskWithoutStart == \A t \in db.tasks : t.start_date # None

(* C23: in every reachable state the amount of every Payment, Invoice  *)
(* and Refund row is non-negative, whatever amount strings the create   *)
(* commands were given.                                                 *)
C23_AmountsNonNegative ==
  \A table \in {"payments", "invoices", "refunds"} :
    \A r \in db[table] : r.amount # None => Get(r.amount) >= 0

(* the handlers of the three tables treat a negative amount alike: each *)
(* stores it                                                            *)
C23_NegativeStoredByAll ==
  \A user \in Actors, cid \in ContractIds, new_id \in RowIds :
    get_contract(db, cid) # {}
    => /\ manage_payments(db, user, cid, "-5.00", "2024-01-15",
                          new_id).outcome = Committed
       /\ manage_invoices(db, user, cid, "-5.00", "2024-01-15",
                          new_id).outcome = Committed
       /\ manage_refunds(db, user, cid, "-5.00", "2024-01-15",
                         new_id).outcome = Committed

(* the answer of a create service: returned, nothing committed, and the *)
(* table one row larger, the new row carrying a fresh id, the contract's *)
(* id and the given fields                                               *)
AddsOneRow(a, table, contract, fields) ==
  /\ a.outcome = Returned
  /\ a.t.base = db
  /\ \A other \in DOMAIN db : other # table => a.t.cur[other] = db[other]
  /\ \E row \in a.t.cur[table] \ db[table] :
       /\ a.t.cur[table] = db[table] \cup {row}
       /\ row.id \notin Ids(db[table])
       /\ row.contract_id = contract.id
       /\ \A f \in DOMAIN fields : row[f] = fields[f]

(* the task part of C24: create_task adds exactly one task row of the    *)
(* contract with the given fields and does not commit                    *)
C24_CreateTaskAddsOne ==
  \A contract \in db.contracts, start_date \in DateValues,
     new_id \in FreshIds(db.tasks, RowIds) :
    AddsOneRow(task_service_create_task(Begin(db), contract, start_date,
                                        new_id),
               "tasks", contract, [start_date |-> start_date])

(* C24: create_payment, create_invoice, create_refund and create_task,   *)
(* called with a parent contract and valid field values, add exactly one *)
(* new child row with that contract's id and the given values to the     *)
(* pending transaction, return it with an id assigned, and do not        *)
(* commit.                                                               *)
C24_CreateAddsOneRow ==
  /\ C24_CreateTaskAddsOne
  /\ \A contract \in db.contracts, amount \in AmountValues :
       /\ AddsOneRow(finance_service_create_payment(Begin(db), contract,
                                                    amount),
                     "payments", contract, [amount |-> Some(amount)])
       /\ AddsOneRow(finance_service_create_invoice(Begin(db), contract,
                                                    amount),
                     "invoices", contract, [amount |-> Some(amount)])
       /\ AddsOneRow(finance_service_create_refund(Begin(db), contract,
                                                   amount),
                     "refunds", contract, [amount |-> Some(amount)])

(* a task created by the service is in the store once the caller        *)
(* committed                                                             *)
C24_TaskCreated ==
  /\ last.cmd = "task_service.create_task"
  /\ last.outcome = Committed
  /\ \E t \in db.tasks : t.id = last.rid /\ t.contract_id = last.cid

(* C25: update_task overwrites exactly the fields that were supplied    *)
(* (an argument other than the None default, the empty string included) *)
(* and leaves every omitted field of the task, every other task and     *)
(* every other table unchanged.                                         *)
C25_PartialUpdate ==
  (call # None /\ Get(call).fn = "task_service.update_task")
  => LET c == Get(call)
         new == {t \in c.after.cur.tasks : t.id = c.task.id}
     IN /\ Cardinality(new) = 1
        /\ \A t \in new :
             /\ \A f \in TaskFields :
                  t[f] = IF c.kw[f] # None THEN c.kw[f] ELSE c.task[f]
             /\ t.id = c.task.id
             /\ t.contract_id = c.task.contract_id
        /\ c.after.cur.tasks \ new = c.before.tasks \ {c.task}
        /\ \A table \in DOMAIN c.before :
             table # "tasks" => c.after.cur[table] = c.before[table]

(* the task with every field set got an empty name and a new status,    *)
(* and kept the person and the dates that were left out                  *)
C25_Witness ==
  /\ call # None
  /\ Get(call).fn = "task_service.update_task"
  /\ Get(call).task.id = 1
  /\ Get(call).kw.name = Some("")
  /\ Get(call).kw.person_id = None
  /\ \E t \in db.tasks :
       /\ t.id = 1
       /\ t.name = Some("")
       /\ t.status = Some(PASSED)
       /\ t.person_id = Some(1)
       /\ t.start_date = Some("D20231201")
  /\ \E t \in db.tasks : t.id = 2 /\ t.name = Some("A")

(* C26: the single-file delete is a soft delete: delete_file removes no  *)
(* ProjectFile row and changes nothing of a row but is_deleted, which it *)
(* sets; no command turns is_deleted of a row from true to false; and a  *)
(* download or delete request for a file whose is_deleted is true ends   *)
(* in not-found and changes nothing.                                     *)
C26_SoftDelete ==
  [][/\ last'.cmd = "delete_file"
          => /\ Ids(db'.files) = Ids(db.files)
             /\ \A f \in db.files :
                  f \in db'.files
                  \/ [f EXCEPT !.is_deleted = TRUE] \in db'.files
     /\ \A f \in db.files, g \in db'.files :
          (f.is_deleted /\ g.id = f.id) => g.is_deleted
     /\ (/\ last'.cmd \in {"download_file", "delete_file"}
         /\ \E f \in db.files : f.id = last'.rid /\ f.is_deleted)
          => (last'.outcome = NotFound /\ db' = db)]_vars

(* a file was uploaded and soft-deleted, and the download asked for next *)
(* found nothing: the row is still in the table                          *)
C26_Witness ==
  /\ last.cmd = "download_file"
  /\ last.outcome = NotFound
  /\ \E f \in filter_by_id_contract(db.files, last.rid, last.cid) :
       f.is_deleted
  /\ \E i \in 1..Len(db.logs) : db.logs[i].action = "file.delete_soft"

(* no character of the text is one of \ / : * ? " < > | or a space *)
Safe(text) == \A i \in 1..Len(text) : text[i] \notin invalid \cup {" "}

(* the base-name part of C27: the part before the extension holds none  *)
(* of the characters and is at most BaseLimit characters long           *)
C27_BaseSafe ==
  (call # None /\ Get(call).fn = "generate_file_name")
  => /\ Safe(Get(call).base)
     /\ Len(Get(call).base) <= BaseLimit
     /\ Get(call).result = Get(call).base \o Get(call).ext

(* C27: for every upload input the stored filename returned by          *)
(* generate_file_name contains none of the characters \ / : * ? " < > | *)
(* and no space, the extension taken from the original filename         *)
(* included, and its part before the extension is at most BaseLimit     *)
(* (180 in the source) characters long.                                 *)
C27_StoredNameSafe ==
  (call # None /\ Get(call).fn = "generate_file_name")
  => /\ Safe(Get(call).result)
     /\ Len(Get(call).base) <= BaseLimit

(* a base name that was cut at the limit, and one that was not *)
C27_Truncated ==
  /\ call # None
  /\ Get(call).fn = "generate_file_name"
  /\ Len(Get(call).base) = BaseLimit
  /\ Get(call).contract.company = <<>>

C27_NotTruncated ==
  /\ call # None
  /\ Get(call).fn = "generate_file_name"
  /\ Len(Get(call).base) < BaseLimit
  /\ Get(call).contract.company # <<>>

(* C28: any two ProjectFile rows that are not soft-deleted have          *)
(* different stored_filename values, two uploads to the same contract on *)
(* the same day with the same file type, version, author and extension   *)
(* included.                                                             *)
C28_StoredNamesDistinct ==
  \A f, g \in db.files :
    (~f.is_deleted /\ ~g.is_deleted /\ f.stored_filename = g.stored_filename)
    => f = g

(* uploads that differ in the contract, the file type, the version, the  *)
(* uploader or the extension are stored under different names            *)
C28_DistinctInputsDistinctNames ==
  \A f, g \in db.files :
    (\/ f.contract_id # g.contract_id
     \/ f.file_type # g.file_type
     \/ f.uploader_id # g.uploader_id)
    => f.stored_filename # g.stored_filename

(* C29: through the upload path every ProjectFile with is_public = true *)
(* has file_type contract or tech: manage_files stores is_public = true  *)
(* only for the flag y with one of those two types, and no other command *)
(* changes is_public or file_type of a stored file.                      *)
PublicOnlyContractOrTech(files) ==
  \A f \in files : f.is_public => f.file_type \in {"contract", "tech"}

C29_PublicOnlyContractOrTech ==
  /\ PublicOnlyContractOrTech(db.files)
  /\ [][/\ PublicOnlyContractOrTech(db'.files)
        /\ \A f \in db.files : \A g \in db'.files :
             g.id = f.id => /\ g.is_public = f.is_public
                            /\ g.file_type = f.file_type]_vars

(* a public tech file and a drawing that is not public are stored, and *)
(* a file was soft-deleted                                              *)
C29_Witness ==
  /\ \E f \in db.files : f.is_public /\ f.file_type = "tech"
  /\ \E f \in db.files : ~f.is_public /\ f.file_type = "drawing"
  /\ \E f \in db.files : f.is_deleted

---------------------------------------------------------------------------
(* The status read between commands (SpecSticky) *)

(* contract_overview: the page computes the status of the contract it is  *)
(* asked for and writes nothing                                           *)
ContractOverview ==
  \E cid \in ContractIds :
    /\ get_contract(db, cid) # {}
    /\ status_out' = Some([cid |-> cid,
                           status |-> get_contract_status(db, cid)])
    /\ last' = [cmd |-> "contract_overview", outcome |-> Served,
                cid |-> cid, rid |-> 0]
    /\ UNCHANGED <<db, snap, finance_out, call, flight>>

(* the deletion of acceptances and feedbacks, the two feedback switches *)
(* and the overview page                                                *)
NextSticky ==
  \/ DeleteAcceptance
  \/ DeleteFeedback
  \/ ResolveFeedback
  \/ UnresolveFeedback
  \/ ContractOverview

(* the first contract was created and has a passed acceptance, a payment, *)
(* a feedback and at most one task: it is COMPLETE or has an open issue   *)
StickyStores ==
  LET ids == 1..MaxStatusRows
  IN {[Seeded(1) EXCEPT
         !.tasks = t,
         !.acceptances = {[id |-> 1, contract_id |-> 1, status |-> PASSED]},
         !.payments = {[id |-> 1, contract_id |-> 1, amount |-> Some(10000)]},
         !.feedbacks = {[id |-> 1, contract_id |-> 1, is_resolved |-> r]}] :
        t \in DrawTable(ids, {[contract_id |-> 1, start_date |-> None]}),
        r \in BOOLEAN}

InitSticky ==
  /\ db \in StickyStores
  /\ last = NoRequest
  /\ snap = None
  /\ status_out = None
  /\ finance_out = None
  /\ call = None
  /\ flight = {}

SpecSticky == InitSticky /\ [][NextSticky]_vars

(* the status the records of contract cid in store d call for *)
Derived(d, cid) ==
  LET started == \/ HasRow(d.tasks, cid)
                 \/ HasRow(d.acceptances, cid)
                 \/ HasRow(d.payments, cid)
                 \/ HasRow(d.invoices, cid)
      passed == \E a \in d.acceptances :
                  a.contract_id = cid /\ a.status = PASSED
      paid == HasRow(d.payments, cid)
      open == \E f \in d.feedbacks : f.contract_id = cid /\ ~f.is_resolved
  IN IF ~started THEN NOT_STARTED
     ELSE IF ~passed THEN IN_PRODUCTION
     ELSE IF ~paid THEN ACCEPTED_AWAITING_PAYMENT
     ELSE IF open THEN PAID_WITH_OPEN_ISSUES
     ELSE COMPLETE

(* this step is the command cmd, and it was committed *)
Did(cmd) ==
  /\ last'.cmd = cmd
  /\ last'.outcome = Committed
  /\ db' # db

(* C30: the derived status is never sticky: a status read after any       *)
(* sequence of delete, resolve and unresolve commands is the derivation   *)
(* over the records that exist then; from COMPLETE, marking a             *)
(* feedback unresolved gives PAID_WITH_OPEN_ISSUES and resolving it gives *)
(* COMPLETE again, and deleting the only passed acceptance gives          *)
(* IN_PRODUCTION while a task, acceptance, payment or invoice remains.    *)
C30_StatusNeverSticky ==
  /\ [](last.cmd = "contract_overview" =>
         /\ status_out # None
         /\ Get(status_out).cid = last.cid
         /\ Get(status_out).status.text = Derived(db, last.cid))
  /\ [][LET cid == last'.cid
            open == {f \in db.feedbacks :
                       f.contract_id = cid /\ ~f.is_resolved}
            passed == {a \in db.acceptances :
                         a.contract_id = cid /\ a.status = PASSED}
        IN /\ (Did("unresolve_feedback") /\ Derived(db, cid) = COMPLETE)
                => Derived(db', cid) = PAID_WITH_OPEN_ISSUES
           /\ (/\ Did("resolve_feedback")
               /\ Derived(db, cid) = PAID_WITH_OPEN_ISSUES
               /\ \A f \in open : f.id = last'.rid)
                => Derived(db', cid) = COMPLETE
           /\ (/\ Did("delete_acceptance")
               /\ \A a \in passed : a.id = last'.rid
               /\ \/ HasRow(db'.tasks, cid)
                  \/ HasRow(db'.acceptances, cid)
                  \/ HasRow(db'.payments, cid)
                  \/ HasRow(db'.invoices, cid))
                => Derived(db', cid) = IN_PRODUCTION]_vars

(* a feedback of a complete contract was marked unresolved and resolved   *)
(* again, the contract's only passed acceptance was deleted then, and the *)
(* overview read next shows the paid contract IN_PRODUCTION               *)
C30_Witness ==
  /\ last.cmd = "contract_overview"
  /\ status_out # None
  /\ Get(status_out).status.text = IN_PRODUCTION
  /\ HasRow(db.payments, last.cid)
  /\ ~HasRow(db.acceptances, last.cid)
  /\ Len(db.logs) >= 3
  /\ \E i \in 1..(Len(db.logs) - 2) :
       /\ db.logs[i].action = "feedback.unresolve"
       /\ db.logs[i + 1].action = "feedback.resolve"
       /\ db.logs[i + 1].target_id = db.logs[i].target_id
       /\ db.logs[i + 2].action = "acceptance.delete"

====
